---- MODULE Spec2Model ----
(***************************************************************************)
(* A model of the Wordle server (src/Server/wordle_server.py): the letter  *)
(* evaluator, the letter-status tracker, the room registry and the         *)
(* multiplayer sessions, each request handler taken as one atomic step.    *)
(***************************************************************************)
EXTENDS Integers, Sequences, FiniteSets, TLC

VARIABLES rooms, games, nextId, dbCalls, ev, threads, seen

vars == <<rooms, games, nextId, dbCalls, ev, threads, seen>>

(***************************************************************************)
(* Bounds of the model.                                                    *)
(***************************************************************************)
\* Match play (Spec): users, words drawn as targets and guesses, games started.
NumUsers == 2
NumWords == 3
MaxGames == 1
\* The room registry (SpecRooms).
NumRoomUsers == 3
NumRoomWords == 1
MaxRoomGames == 2
\* The evaluator on its own (SpecEval): letters of the alphabet used.
NumLetters == 3

(***************************************************************************)
(* Program constants.                                                      *)
(***************************************************************************)
DEFAULT_MAX_ROUNDS == 3
WordLen == 5
NumRooms == 3
RoomCapacity == 2

Alphabet ==
  <<"A","B","C","D","E","F","G","H","I","J","K","L","M",
    "N","O","P","Q","R","S","T","U","V","W","X","Y","Z">>

LowerAlphabet ==
  <<"a","b","c","d","e","f","g","h","i","j","k","l","m",
    "n","o","p","q","r","s","t","u","v","w","x","y","z">>

Letters == {Alphabet[i] : i \in DOMAIN Alphabet}

WORD_LIST ==
  << <<"A","B","O","U","T">>, <<"A","F","T","E","R">>, <<"A","G","A","I","N">>,
     <<"B","R","A","I","N">>, <<"C","H","A","I","R">>, <<"D","A","N","C","E">>,
     <<"E","A","R","L","Y">>, <<"F","I","E","L","D">>, <<"H","E","A","R","T">>,
     <<"L","I","G","H","T">> >>

WordSet == {WORD_LIST[i] : i \in DOMAIN WORD_LIST}

\* The order in which the model draws words of WORD_LIST as targets and guesses.
WordOrder == <<3, 4, 6, 5, 9, 1, 2, 7, 8, 10>>

FirstWords(n) == {WORD_LIST[WordOrder[i]] : i \in 1..n}

UserPool == <<"alice", "bob", "carol", "dave", "erin">>

FirstUsers(n) == {UserPool[i] : i \in 1..n}

\* Python's None, for a game id, a character, a word and a string.
NoGame == 0
NoneCh == "None"
NoWord == <<>>
None == "None"

HIT == "HIT"
PRESENT == "PRESENT"
MISS == "MISS"
UNUSED == "UNUSED"

LetterStatus == {HIT, PRESENT, MISS, UNUSED}

(***************************************************************************)
(* _evaluate_guess_against_target: the two passes.                         *)
(***************************************************************************)
\* A first pass that forgets to consume the exact matches.
FirstPassTargetKept(guess, target) == target

\* target_chars after the first pass: exact matches are consumed.
FirstPassTarget(guess, target) ==
  [i \in 1..WordLen |-> IF guess[i] = target[i] THEN NoneCh ELSE target[i]]

\* result after the first pass: HIT, or a placeholder for the second pass.
FirstPassResult(guess, target) ==
  [i \in 1..WordLen |->
     IF guess[i] = target[i] THEN <<guess[i], HIT>> ELSE <<guess[i], None>>]

\* list.index(letter): the leftmost position holding letter.
IndexOf(chars, letter) ==
  CHOOSE k \in DOMAIN chars :
    /\ chars[k] = letter
    /\ \A j \in DOMAIN chars : j < k => chars[j] # letter

RECURSIVE SecondPass(_, _, _, _)
SecondPass(i, guess, result, target_chars) ==
  IF i > WordLen THEN result
  ELSE IF result[i][2] = None
       THEN IF \E k \in DOMAIN target_chars : target_chars[k] = guess[i]
            THEN SecondPass(i + 1, guess,
                            [result EXCEPT ![i] = <<guess[i], PRESENT>>],
                            [target_chars EXCEPT ![IndexOf(target_chars, guess[i])] = NoneCh])
            ELSE SecondPass(i + 1, guess,
                            [result EXCEPT ![i] = <<guess[i], MISS>>],
                            target_chars)
       ELSE SecondPass(i + 1, guess, result, target_chars)

\* Line 655: entries 1..k of result whose status is not None, in order.
RECURSIVE Resolved(_, _)
Resolved(result, k) ==
  IF k = 0 THEN <<>>
  ELSE IF result[k][2] # None
       THEN Append(Resolved(result, k - 1), result[k])
       ELSE Resolved(result, k - 1)

\* An evaluation that stops after the first pass: what is no HIT is a MISS.
EvaluateExactOnly(guess, target) ==
  [i \in 1..WordLen |->
     IF guess[i] = target[i] THEN <<guess[i], HIT>> ELSE <<guess[i], MISS>>]

EvaluateGuessAgainstTarget(guess, target) ==
  Resolved(SecondPass(1, guess, FirstPassResult(guess, target),
                      FirstPassTarget(guess, target)),
           WordLen)

(***************************************************************************)
(* _update_letter_status: one evaluated letter, then the whole evaluation. *)
(***************************************************************************)
\* A tracker whose PRESENT overwrites whatever is stored.
UpdateOneLetterOverwriting(letter_status, letter, new_status) ==
  IF new_status = HIT
  THEN [letter_status EXCEPT ![letter] = HIT]
  ELSE IF new_status = PRESENT
  THEN [letter_status EXCEPT ![letter] = PRESENT]
  ELSE IF new_status = MISS /\ letter_status[letter] = UNUSED
  THEN [letter_status EXCEPT ![letter] = MISS]
  ELSE letter_status

\* A tracker whose PRESENT only replaces a MISS.
UpdateOneLetterPresentFromMiss(letter_status, letter, new_status) ==
  IF new_status = HIT
  THEN [letter_status EXCEPT ![letter] = HIT]
  ELSE IF new_status = PRESENT /\ letter_status[letter] = MISS
  THEN [letter_status EXCEPT ![letter] = PRESENT]
  ELSE IF new_status = MISS /\ letter_status[letter] = UNUSED
  THEN [letter_status EXCEPT ![letter] = MISS]
  ELSE letter_status

UpdateOneLetter(letter_status, letter, new_status) ==
  IF new_status = HIT
  THEN [letter_status EXCEPT ![letter] = HIT]
  ELSE IF new_status = PRESENT /\ letter_status[letter] # HIT
  THEN [letter_status EXCEPT ![letter] = PRESENT]
  ELSE IF new_status = MISS /\ letter_status[letter] = UNUSED
  THEN [letter_status EXCEPT ![letter] = MISS]
  ELSE letter_status

RECURSIVE UpdateLetterStatusFrom(_, _, _)
UpdateLetterStatusFrom(k, letter_status, evaluations) ==
  IF k > Len(evaluations) THEN letter_status
  ELSE UpdateLetterStatusFrom(
         k + 1,
         UpdateOneLetter(letter_status, evaluations[k][1], evaluations[k][2]),
         evaluations)

UpdateLetterStatus(letter_status, evaluations) ==
  UpdateLetterStatusFrom(1, letter_status, evaluations)

AllUnused == [l \in Letters |-> UNUSED]

(***************************************************************************)
(* The standalone engine, src/wordle_game.py: WordleGame's evaluator and   *)
(* letter-status routine, which read the target word and the status map    *)
(* from the object.                                                        *)
(***************************************************************************)
\* Lines 315-323: the first loop, from position i on, over the working copies.
RECURSIVE WordleGameFirstPass(_, _, _, _)
WordleGameFirstPass(i, guess_chars, target_chars, result) ==
  IF i > WordLen
  THEN [result |-> result, target_chars |-> target_chars]
  ELSE IF guess_chars[i] = target_chars[i]
  THEN WordleGameFirstPass(i + 1,
                           [guess_chars EXCEPT ![i] = NoneCh],
                           [target_chars EXCEPT ![i] = NoneCh],
                           Append(result, <<guess_chars[i], HIT>>))
  ELSE WordleGameFirstPass(i + 1, guess_chars, target_chars,
                           Append(result, <<guess_chars[i], None>>))

\* Lines 326-336: the second loop, from position i on.
RECURSIVE WordleGameSecondPass(_, _, _, _)
WordleGameSecondPass(i, guess, target_chars, result) ==
  IF i > WordLen THEN result
  ELSE IF result[i][2] # None
  THEN WordleGameSecondPass(i + 1, guess, target_chars, result)
  ELSE LET letter == guess[i]
       IN  IF letter \in {target_chars[k] : k \in DOMAIN target_chars}
           THEN WordleGameSecondPass(
                  i + 1, guess,
                  [target_chars EXCEPT ![IndexOf(target_chars, letter)] = NoneCh],
                  [result EXCEPT ![i] = <<letter, PRESENT>>])
           ELSE WordleGameSecondPass(i + 1, guess, target_chars,
                                     [result EXCEPT ![i] = <<letter, MISS>>])

\* An engine whose second loop marks PRESENT every letter the target holds,
\* consumed or not.
WordleGameEvaluateUnconsumed(self, guess) ==
  [i \in 1..WordLen |->
     IF guess[i] = self.target_word[i] THEN <<guess[i], HIT>>
     ELSE IF \E k \in 1..WordLen : self.target_word[k] = guess[i]
     THEN <<guess[i], PRESENT>>
     ELSE <<guess[i], MISS>>]

\* WordleGame._evaluate_guess_against_target(guess): the target is self's.
WordleGameEvaluateGuessAgainstTarget(self, guess) ==
  LET first == WordleGameFirstPass(1, guess, self.target_word, <<>>)
      result == WordleGameSecondPass(1, guess, first.target_chars, first.result)
  IN  SelectSeq(result, LAMBDA entry : entry[2] # None)

\* WordleGame._update_letter_status(evaluations), from entry k on: the status
\* map is self's, and the value is the map it leaves.
RECURSIVE WordleGameUpdateLetterStatus(_, _, _)
WordleGameUpdateLetterStatus(k, letter_status, evaluations) ==
  IF k > Len(evaluations) THEN letter_status
  ELSE LET letter == evaluations[k][1]
           new_status == evaluations[k][2]
           current_status == letter_status[letter]
       IN  WordleGameUpdateLetterStatus(
             k + 1,
             CASE new_status = HIT -> [letter_status EXCEPT ![letter] = HIT]
               [] new_status = PRESENT /\ current_status # HIT ->
                    [letter_status EXCEPT ![letter] = PRESENT]
               [] new_status = MISS /\ current_status = UNUSED ->
                    [letter_status EXCEPT ![letter] = MISS]
               [] OTHER -> letter_status,
             evaluations)

(***************************************************************************)
(* Strings: str.strip, str.upper, str.isalpha on sequences of characters.  *)
(***************************************************************************)
Upper(c) ==
  IF \E i \in DOMAIN LowerAlphabet : LowerAlphabet[i] = c
  THEN Alphabet[CHOOSE i \in DOMAIN LowerAlphabet : LowerAlphabet[i] = c]
  ELSE c

RECURSIVE ToUpper(_)
ToUpper(s) == IF s = <<>> THEN <<>> ELSE <<Upper(Head(s))>> \o ToUpper(Tail(s))

RECURSIVE LStrip(_)
LStrip(s) == IF s # <<>> /\ Head(s) = " " THEN LStrip(Tail(s)) ELSE s

RECURSIVE RStrip(_)
RStrip(s) ==
  IF s # <<>> /\ s[Len(s)] = " " THEN RStrip(SubSeq(s, 1, Len(s) - 1)) ELSE s

Strip(s) == RStrip(LStrip(s))

IsAlpha(s) ==
  /\ s # <<>>
  /\ \A i \in DOMAIN s :
       \/ s[i] \in Letters
       \/ \E k \in DOMAIN LowerAlphabet : LowerAlphabet[k] = s[i]

Normalize(guess) == ToUpper(Strip(guess))

(***************************************************************************)
(* The server's state, as one value the handlers transform.                *)
(***************************************************************************)
RoomIds == 1..NumRooms

EmptyRoom == [players |-> <<>>, ready |-> {}, game_id |-> NoGame]

\* WordleServer.__init__
InitServer ==
  [rooms |-> [r \in RoomIds |-> EmptyRoom],
   games |-> <<>>,
   nextId |-> 1,
   dbCalls |-> <<>>]

InList(list, x) == \E i \in DOMAIN list : list[i] = x

\* list.remove(x) for an x the list holds: drops its first occurrence.
ListRemove(list, x) ==
  LET k == IndexOf(list, x)
  IN  SubSeq(list, 1, k - 1) \o SubSeq(list, k + 1, Len(list))

DictRemove(f, k) == [x \in DOMAIN f \ {k} |-> f[x]]

DictPut(f, k, v) == [x \in DOMAIN f \cup {k} |-> IF x = k THEN v ELSE f[x]]

\* all(p["game_over"] for p in game["players"].values())
AllPlayersGameOver(game) ==
  \A p \in DOMAIN game.players : game.players[p].game_over

\* One player's record of a multiplayer game, as start_multiplayer_game builds it.
NewPlayerData(target_word) ==
  [selected_word |-> target_word,
   current_round |-> 0,
   max_rounds |-> DEFAULT_MAX_ROUNDS,
   game_over |-> FALSE,
   won |-> FALSE,
   guesses |-> <<>>,
   guess_results |-> <<>>,
   letter_status |-> AllUnused]

\* A cleanup that removes the game and forgets to reset its room.
CleanupCompletedGameNoReset(st, game_id) ==
  IF game_id \notin DOMAIN st.games THEN st
  ELSE [st EXCEPT !.games = DictRemove(st.games, game_id)]

\* cleanup_completed_game
CleanupCompletedGame(st, game_id) ==
  IF game_id \notin DOMAIN st.games THEN st
  ELSE LET room_id == st.games[game_id].room_id
           rooms1 == IF room_id # 0 /\ room_id \in DOMAIN st.rooms
                     THEN [st.rooms EXCEPT ![room_id] = EmptyRoom]
                     ELSE st.rooms
       IN  [st EXCEPT !.rooms = rooms1, !.games = DictRemove(st.games, game_id)]

\* A check that takes a game for ended as soon as one player is game_over.
RoomHasEndedGameAny(st, room_id) ==
  LET gid == st.rooms[room_id].game_id
  IN  /\ gid # NoGame
      /\ gid \in DOMAIN st.games
      /\ \E p \in DOMAIN st.games[gid].players : st.games[gid].players[p].game_over

\* A check that takes every game of the table for an ended one.
RoomHasGame(st, room_id) ==
  LET gid == st.rooms[room_id].game_id
  IN  gid # NoGame /\ gid \in DOMAIN st.games

\* A check that never finds an ended game.
RoomHasEndedGameNever(st, room_id) == FALSE

\* The check made by join_room, leave_room and get_rooms_status: the room
\* references a game of the table whose players are all game_over.
RoomHasEndedGame(st, room_id) ==
  LET gid == st.rooms[room_id].game_id
  IN  /\ gid # NoGame
      /\ gid \in DOMAIN st.games
      /\ AllPlayersGameOver(st.games[gid])

\* A start that does not record the new game on the room.
StartMultiplayerGameUnreferenced(st, room_id, target_word) ==
  LET players == st.rooms[room_id].players
      game_id == st.nextId
      game_data ==
        [game_type |-> "multiplayer",
         room_id |-> room_id,
         order |-> players,
         players |-> [p \in {players[1], players[2]} |-> NewPlayerData(target_word)],
         winner |-> None,
         target_word |-> target_word]
  IN  IF Len(players) # 2
      THEN [st |-> st, data |-> [error |-> "Need exactly 2 players"]]
      ELSE [st |-> [st EXCEPT !.games = DictPut(st.games, game_id, game_data),
                              !.nextId = st.nextId + 1],
            data |-> [game_id |-> game_id,
                      room_id |-> room_id,
                      players |-> players,
                      target_word |-> target_word]]

\* start_multiplayer_game; target_word is random.choice(self.word_list) and
\* the new game id is uuid4(), a value never used before.
StartMultiplayerGame(st, room_id, target_word) ==
  LET players == st.rooms[room_id].players
      game_id == st.nextId
      game_data ==
        [game_type |-> "multiplayer",
         room_id |-> room_id,
         order |-> players,
         players |-> [p \in {players[1], players[2]} |-> NewPlayerData(target_word)],
         winner |-> None,
         target_word |-> target_word]
  IN  IF Len(players) # 2
      THEN [st |-> st, data |-> [error |-> "Need exactly 2 players"]]
      ELSE [st |-> [st EXCEPT !.games = DictPut(st.games, game_id, game_data),
                              !.rooms[room_id].game_id = game_id,
                              !.nextId = st.nextId + 1],
            data |-> [game_id |-> game_id,
                      room_id |-> room_id,
                      players |-> players,
                      target_word |-> target_word]]

\* Remove username from the players and the ready map of a room, if listed.
RemoveFromRoom(room, username) ==
  IF InList(room.players, username)
  THEN [room EXCEPT !.players = ListRemove(room.players, username),
                    !.ready = room.ready \ {username}]
  ELSE room

\* A join that leaves the user's other memberships alone.
LeaveOtherRoomsSkipped(rooms2, username) == rooms2

\* join_room, lines 292-297: the user leaves every room they are listed in.
LeaveOtherRooms(rooms2, username) ==
  [r \in DOMAIN rooms2 |-> RemoveFromRoom(rooms2[r], username)]

NoData == [game_id |-> NoGame]

\* A capacity check that lets one player too many in.
RoomIsFullOffByOne(room, username) ==
  Len(SelectSeq(room.players, LAMBDA p : p # username)) > RoomCapacity

\* join_room, lines 281-284: the room lists 2 players other than the joiner.
RoomIsFull(room, username) ==
  Len(SelectSeq(room.players, LAMBDA p : p # username)) >= RoomCapacity

\* join_room
JoinRoomHandler(st, room_id, username, target_word) ==
  IF room_id \notin DOMAIN st.rooms
  THEN [st |-> st,
        resp |-> [success |-> FALSE, error |-> "Room does not exist",
                  game_starting |-> FALSE, game_data |-> NoData]]
  ELSE
    LET st1 == IF RoomHasEndedGame(st, room_id)
               THEN CleanupCompletedGame(st, st.rooms[room_id].game_id)
               ELSE st
        room == st1.rooms[room_id]
        \* lines 286-290: leave this room's list and ready map
        rooms2 == [st1.rooms EXCEPT
                     ![room_id] = [players |-> IF InList(room.players, username)
                                               THEN ListRemove(room.players, username)
                                               ELSE room.players,
                                   ready |-> room.ready \ {username},
                                   game_id |-> room.game_id]]
        \* lines 292-297: leave every other room
        rooms3 == LeaveOtherRooms(rooms2, username)
        \* lines 299-300
        rooms4 == [rooms3 EXCEPT
                     ![room_id].players = Append(rooms3[room_id].players, username),
                     ![room_id].ready = rooms3[room_id].ready \cup {username}]
        st4 == [st1 EXCEPT !.rooms = rooms4]
        started == StartMultiplayerGame(st4, room_id, target_word)
    IN  IF RoomIsFull(room, username)
        THEN [st |-> st1,
              resp |-> [success |-> FALSE, error |-> "Room is full",
                        game_starting |-> FALSE, game_data |-> NoData]]
        ELSE IF Len(rooms4[room_id].players) = RoomCapacity
        THEN [st |-> started.st,
              resp |-> [success |-> TRUE, error |-> None,
                        game_starting |-> TRUE, game_data |-> started.data]]
        ELSE [st |-> st4,
              resp |-> [success |-> TRUE, error |-> None,
                        game_starting |-> FALSE, game_data |-> NoData]]

\* leave_room
LeaveRoomHandler(st, room_id, username) ==
  IF room_id \notin DOMAIN st.rooms
  THEN [st |-> st, resp |-> [success |-> FALSE, error |-> "Room does not exist"]]
  ELSE
    LET room == st.rooms[room_id]
        room1 == [players |-> IF InList(room.players, username)
                              THEN ListRemove(room.players, username)
                              ELSE room.players,
                  ready |-> room.ready \ {username},
                  game_id |-> room.game_id]
        st1 == [st EXCEPT !.rooms[room_id] = room1]
        st2 == IF /\ room1.game_id # NoGame
                  /\ Len(room1.players) = 0
                  /\ room1.game_id \in DOMAIN st1.games
                  /\ AllPlayersGameOver(st1.games[room1.game_id])
               THEN CleanupCompletedGame(st1, room1.game_id)
               ELSE st1
    IN  [st |-> st2, resp |-> [success |-> TRUE, error |-> None]]

(***************************************************************************)
(* Multiplayer play.                                                       *)
(***************************************************************************)
NoState == [game_id |-> NoGame]

\* The other keys of game["players"], in dictionary order.
OtherPlayers(game, username) == SelectSeq(game.order, LAMBDA p : p # username)

\* db_manager.update_user_stats(username, won), recorded as a call.
StatsCall(username, won) == [username |-> username, won |-> won]

StatsCallsFor(users, won) == [i \in DOMAIN users |-> StatsCall(users[i], won)]

\* dbCalls: for each game id, the update_user_stats calls made on its behalf,
\* in call order.
CallsOf(calls, game_id) ==
  IF game_id \in DOMAIN calls THEN calls[game_id] ELSE <<>>

\* A history in which every result is reported to the database twice.
RecordCallsRepeated(calls, game_id, new) ==
  DictPut(calls, game_id, CallsOf(calls, game_id) \o new \o new)

RecordCalls(calls, game_id, new) ==
  DictPut(calls, game_id, CallsOf(calls, game_id) \o new)

\* A view that shows the answer as soon as the player's own game is over.
AnswerVisibleOwn(game, player_data) == player_data.game_over

\* get_multiplayer_game_state, line 572: whether the answer is included.
AnswerVisible(game, player_data) ==
  game.winner # None \/ AllPlayersGameOver(game)

\* get_multiplayer_game_state, line 578
EntireGameOver(game) == game.winner # None \/ AllPlayersGameOver(game)

\* get_multiplayer_game_state
GetMultiplayerGameState(st, game_id, username) ==
  IF game_id \notin DOMAIN st.games THEN NoState
  ELSE IF username \notin DOMAIN st.games[game_id].players THEN NoState
  ELSE
    LET game == st.games[game_id]
        player_data == game.players[username]
    IN  [game_id |-> game_id,
         current_round |-> player_data.current_round,
         max_rounds |-> player_data.max_rounds,
         game_over |-> player_data.game_over,
         won |-> player_data.won,
         guesses |-> player_data.guesses,
         guess_results |-> player_data.guess_results,
         letter_status |-> player_data.letter_status,
         answer |-> IF AnswerVisible(game, player_data)
                    THEN player_data.selected_word ELSE NoWord,
         entire_game_over |-> EntireGameOver(game)]

\* The number of HIT verdicts in one guess result, positions 1..k.
RECURSIVE HitsInResult(_, _)
HitsInResult(guess_result, k) ==
  IF k = 0 THEN 0
  ELSE HitsInResult(guess_result, k - 1)
       + (IF guess_result[k][2] = HIT THEN 1 ELSE 0)

\* hit_count of one player: the HIT verdicts of guess results 1..k.
RECURSIVE HitCountUpTo(_, _)
HitCountUpTo(guess_results, k) ==
  IF k = 0 THEN 0
  ELSE HitCountUpTo(guess_results, k - 1)
       + HitsInResult(guess_results[k], Len(guess_results[k]))

HitCount(player_data) ==
  HitCountUpTo(player_data.guess_results, Len(player_data.guess_results))

\* A comparison that keeps only the first of the players with the most hits.
HitWinnersFirstOnly(game) ==
  LET player_hit_counts == [u \in DOMAIN game.players |-> HitCount(game.players[u])]
      max_hits == CHOOSE m \in {player_hit_counts[u] : u \in DOMAIN game.players} :
                    \A u \in DOMAIN game.players : player_hit_counts[u] <= m
      winners == SelectSeq(game.order, LAMBDA u : player_hit_counts[u] = max_hits)
  IN  SubSeq(winners, 1, 1)

\* A comparison that takes the fewest hits for the most.
HitWinnersFewest(game) ==
  LET player_hit_counts == [u \in DOMAIN game.players |-> HitCount(game.players[u])]
      min_hits == CHOOSE m \in {player_hit_counts[u] : u \in DOMAIN game.players} :
                    \A u \in DOMAIN game.players : player_hit_counts[u] >= m
  IN  SelectSeq(game.order, LAMBDA u : player_hit_counts[u] = min_hits)

\* _determine_winner_by_hits, lines 497-510: the players whose hit count is
\* the maximum, in dictionary order.
HitWinners(game) ==
  LET player_hit_counts == [u \in DOMAIN game.players |-> HitCount(game.players[u])]
      max_hits == CHOOSE m \in {player_hit_counts[u] : u \in DOMAIN game.players} :
                    \A u \in DOMAIN game.players : player_hit_counts[u] <= m
  IN  SelectSeq(game.order, LAMBDA u : player_hit_counts[u] = max_hits)

\* _determine_winner_by_hits: the game and the update_user_stats calls it makes.
\* A decision by hits that names the winner of the match and leaves the
\* winner's own won flag as it was.
DetermineWinnerByHitsUnflagged(game) ==
  LET winners == HitWinners(game)
  IN  IF Len(winners) = 1
      THEN [game |-> [game EXCEPT !.winner = winners[1]],
            calls |-> <<StatsCall(winners[1], TRUE)>>
                      \o StatsCallsFor(OtherPlayers(game, winners[1]), FALSE)]
      ELSE [game |-> [game EXCEPT
                        !.winner = "DRAW",
                        !.players = [u \in DOMAIN game.players |->
                                       [game.players[u] EXCEPT !.won = FALSE]]],
            calls |-> StatsCallsFor(game.order, FALSE)]

DetermineWinnerByHits(game) ==
  LET winners == HitWinners(game)
  IN  IF Len(winners) = 1
      THEN [game |-> [game EXCEPT !.winner = winners[1],
                                  !.players[winners[1]].won = TRUE],
            calls |-> <<StatsCall(winners[1], TRUE)>>
                      \o StatsCallsFor(OtherPlayers(game, winners[1]), FALSE)]
      ELSE [game |-> [game EXCEPT
                        !.winner = "DRAW",
                        !.players = [u \in DOMAIN game.players |->
                                       [game.players[u] EXCEPT !.won = FALSE]]],
            calls |-> StatsCallsFor(game.order, FALSE)]

\* A branch choice that tests the attempts before the win.
GuessOutcomeExhaustedFirst(normalized_guess, target_word, player1) ==
  IF player1.current_round >= player1.max_rounds THEN "exhausted"
  ELSE IF normalized_guess = target_word THEN "won"
  ELSE "continue"

\* make_guess_multiplayer, lines 448 and 472: which branch an accepted guess
\* takes, given the player's record after the guess was appended.
GuessOutcome(normalized_guess, target_word, player1) ==
  IF normalized_guess = target_word THEN "won"
  ELSE IF player1.current_round >= player1.max_rounds THEN "exhausted"
  ELSE "continue"

\* A win that records the winner of the match and forgets the player's won.
MarkWinnerUnflagged(game1, username) ==
  [game1 EXCEPT
     !.winner = username,
     !.players = [u \in DOMAIN game1.players |->
                    [game1.players[u] EXCEPT !.game_over = TRUE]]]

\* A win that leaves the opponent's record as it was.
MarkWinnerOnly(game1, username) ==
  [game1 EXCEPT !.winner = username,
                !.players[username].won = TRUE,
                !.players[username].game_over = TRUE]

\* make_guess_multiplayer, lines 449-457: the guesser wins, every other player
\* is marked as lost.
MarkWinner(game1, username) ==
  [game1 EXCEPT
     !.winner = username,
     !.players = [u \in DOMAIN game1.players |->
                    IF u = username
                    THEN [game1.players[u] EXCEPT !.won = TRUE, !.game_over = TRUE]
                    ELSE [game1.players[u] EXCEPT !.game_over = TRUE, !.won = FALSE]]]

\* make_guess_multiplayer, lines 434-488: an accepted guess.
AcceptGuess(st, game_id, username, normalized_guess) ==
  LET game == st.games[game_id]
      player_data == game.players[username]
      target_word == player_data.selected_word
      evaluations == EvaluateGuessAgainstTarget(normalized_guess, target_word)
      player1 == [player_data EXCEPT
                    !.current_round = player_data.current_round + 1,
                    !.guesses = Append(player_data.guesses, normalized_guess),
                    !.guess_results = Append(player_data.guess_results, evaluations),
                    !.letter_status =
                       UpdateLetterStatus(player_data.letter_status, evaluations)]
      game1 == [game EXCEPT !.players[username] = player1]
      outcome == GuessOutcome(normalized_guess, target_word, player1)
      \* lines 448-463: the win branch
      wonGame == MarkWinner(game1, username)
      wonCalls == <<StatsCall(username, TRUE)>>
                  \o StatsCallsFor(OtherPlayers(game1, username), FALSE)
      \* lines 472-485: the attempts-exhausted branch
      lostGame == [game1 EXCEPT !.players[username].game_over = TRUE]
      decided == DetermineWinnerByHits(lostGame)
  IN  IF outcome = "won"
      THEN [st EXCEPT !.games[game_id] = wonGame,
                      !.dbCalls = RecordCalls(st.dbCalls, game_id, wonCalls)]
      ELSE IF outcome = "exhausted"
      THEN IF AllPlayersGameOver(lostGame) /\ lostGame.winner = None
           THEN [st EXCEPT !.games[game_id] = decided.game,
                           !.dbCalls = RecordCalls(st.dbCalls, game_id, decided.calls)]
           ELSE [st EXCEPT !.games[game_id] = lostGame]
      ELSE [st EXCEPT !.games[game_id] = game1]

\* make_guess_multiplayer
\* A guess handler that does not ask whether the player has finished.
MakeGuessMultiplayerUnfinished(st, game_id, username, guess) ==
  LET Reject(msg) == [st |-> st, state |-> NoState, error |-> msg]
      normalized_guess == Normalize(guess)
  IN  IF game_id \notin DOMAIN st.games THEN Reject("Game not found")
      ELSE IF username \notin DOMAIN st.games[game_id].players
      THEN Reject("Player not in game")
      ELSE IF st.games[game_id].players[username].selected_word = NoWord
      THEN Reject("Word not selected")
      ELSE IF st.games[game_id].players[username].current_round
                >= st.games[game_id].players[username].max_rounds
      THEN Reject("You have used all your attempts")
      ELSE IF Len(normalized_guess) # WordLen \/ ~IsAlpha(normalized_guess)
      THEN Reject("Guess must be exactly 5 letters")
      ELSE IF normalized_guess \notin WordSet
      THEN Reject("Word not in word list")
      ELSE LET st1 == AcceptGuess(st, game_id, username, normalized_guess)
           IN  [st |-> st1,
                state |-> GetMultiplayerGameState(st1, game_id, username),
                error |-> "Success"]

MakeGuessMultiplayer(st, game_id, username, guess) ==
  LET Reject(msg) == [st |-> st, state |-> NoState, error |-> msg]
      normalized_guess == Normalize(guess)
  IN  IF game_id \notin DOMAIN st.games THEN Reject("Game not found")
      ELSE IF username \notin DOMAIN st.games[game_id].players
      THEN Reject("Player not in game")
      ELSE IF st.games[game_id].players[username].selected_word = NoWord
      THEN Reject("Word not selected")
      ELSE IF st.games[game_id].players[username].game_over
      THEN Reject("You have already finished the game")
      ELSE IF st.games[game_id].players[username].current_round
                >= st.games[game_id].players[username].max_rounds
      THEN Reject("You have used all your attempts")
      ELSE IF Len(normalized_guess) # WordLen \/ ~IsAlpha(normalized_guess)
      THEN Reject("Guess must be exactly 5 letters")
      ELSE IF normalized_guess \notin WordSet
      THEN Reject("Word not in word list")
      ELSE LET st1 == AcceptGuess(st, game_id, username, normalized_guess)
           IN  [st |-> st1,
                state |-> GetMultiplayerGameState(st1, game_id, username),
                error |-> "Success"]

(***************************************************************************)
(* Single-player games.  A game of create_new_game is a record of the same *)
(* table, without the key "game_type": game.get('game_type') is None.      *)
(***************************************************************************)
\* max_rounds as the request gives it: <<>> when absent, <<n>> when given.
\* max_rounds or DEFAULT_MAX_ROUNDS: None and 0 are false.
MaxRoundsOrDefault(max_rounds) ==
  IF max_rounds = <<>> \/ max_rounds[1] = 0
  THEN DEFAULT_MAX_ROUNDS ELSE max_rounds[1]

\* create_new_game; target_word is random.choice(self.word_list).
CreateNewGame(st, max_rounds, target_word) ==
  LET game_id == st.nextId
      game_data ==
        [game_type |-> None,
         target_word |-> target_word,
         current_round |-> 0,
         max_rounds |-> MaxRoundsOrDefault(max_rounds),
         game_over |-> FALSE,
         won |-> FALSE,
         guesses |-> <<>>,
         guess_results |-> <<>>,
         letter_status |-> AllUnused]
  IN  [st |-> [st EXCEPT !.games = DictPut(st.games, game_id, game_data),
                         !.nextId = st.nextId + 1],
       game_id |-> game_id]

\* get_game_state
\* A state that carries the target word whether or not the game is over.
GetGameStateRevealing(st, game_id) ==
  IF game_id \notin DOMAIN st.games THEN NoState
  ELSE LET game == st.games[game_id]
       IN  [game_id |-> game_id,
            current_round |-> game.current_round,
            max_rounds |-> game.max_rounds,
            game_over |-> game.game_over,
            won |-> game.won,
            guesses |-> game.guesses,
            guess_results |-> game.guess_results,
            letter_status |-> game.letter_status,
            answer |-> game.target_word,
            entire_game_over |-> FALSE]

GetGameState(st, game_id) ==
  IF game_id \notin DOMAIN st.games THEN NoState
  ELSE LET game == st.games[game_id]
       IN  [game_id |-> game_id,
            current_round |-> game.current_round,
            max_rounds |-> game.max_rounds,
            game_over |-> game.game_over,
            won |-> game.won,
            guesses |-> game.guesses,
            guess_results |-> game.guess_results,
            letter_status |-> game.letter_status,
            answer |-> IF game.game_over THEN game.target_word ELSE NoWord,
            entire_game_over |-> FALSE]

\* A validation that does not look the word up in the word list.
IsValidGuessAnyWord(st, game_id, guess) ==
  IF game_id \notin DOMAIN st.games THEN "Game not found"
  ELSE IF st.games[game_id].game_over THEN "Game is already over"
  ELSE IF guess = <<>> THEN "Guess must be a valid string"
  ELSE IF Len(Normalize(guess)) # WordLen THEN "Guess must be exactly 5 letters"
  ELSE IF ~IsAlpha(Normalize(guess)) THEN "Guess must contain only letters"
  ELSE ""

\* is_valid_guess: the error message, "" for a valid guess.
IsValidGuess(st, game_id, guess) ==
  IF game_id \notin DOMAIN st.games THEN "Game not found"
  ELSE IF st.games[game_id].game_over THEN "Game is already over"
  ELSE IF guess = <<>> THEN "Guess must be a valid string"
  ELSE IF Len(Normalize(guess)) # WordLen THEN "Guess must be exactly 5 letters"
  ELSE IF ~IsAlpha(Normalize(guess)) THEN "Guess must contain only letters"
  ELSE IF Normalize(guess) \notin WordSet THEN "Word not in word list"
  ELSE ""

\* A game that allows one guess more than max_rounds.
SoloOutcomeOneMore(normalized_guess, game1) ==
  IF normalized_guess = game1.target_word THEN "won"
  ELSE IF game1.current_round > game1.max_rounds THEN "lost"
  ELSE "continue"

\* make_guess, lines 251 and 259: win, loss or neither, for the game as
\* updated by the guess.
SoloOutcome(normalized_guess, game1) ==
  IF normalized_guess = game1.target_word THEN "won"
  ELSE IF game1.current_round >= game1.max_rounds THEN "lost"
  ELSE "continue"

\* A guess recorded without counting its round.
RecordGuessUncounted(game, normalized_guess, evaluations) ==
  [game EXCEPT
     !.guesses = Append(game.guesses, normalized_guess),
     !.guess_results = Append(game.guess_results, evaluations),
     !.letter_status = UpdateLetterStatus(game.letter_status, evaluations)]

\* make_guess, lines 244-249: the guess is counted and recorded.
RecordGuess(game, normalized_guess, evaluations) ==
  [game EXCEPT
     !.current_round = game.current_round + 1,
     !.guesses = Append(game.guesses, normalized_guess),
     !.guess_results = Append(game.guess_results, evaluations),
     !.letter_status = UpdateLetterStatus(game.letter_status, evaluations)]

\* make_guess
MakeGuess(st, game_id, guess) ==
  IF IsValidGuess(st, game_id, guess) # "" THEN [st |-> st, state |-> NoState]
  ELSE
    LET game == st.games[game_id]
        normalized_guess == Normalize(guess)
        evaluations == EvaluateGuessAgainstTarget(normalized_guess, game.target_word)
        game1 == RecordGuess(game, normalized_guess, evaluations)
        outcome == SoloOutcome(normalized_guess, game1)
        game2 == IF outcome = "won"
                 THEN [game1 EXCEPT !.won = TRUE, !.game_over = TRUE]
                 ELSE IF outcome = "lost"
                 THEN [game1 EXCEPT !.game_over = TRUE]
                 ELSE game1
        st1 == [st EXCEPT !.games[game_id] = game2]
    IN  [st |-> st1, state |-> GetGameState(st1, game_id)]

\* make_guess_endpoint
MakeGuessEndpoint(st, game_id, username, guess) ==
  IF game_id \in DOMAIN st.games /\ st.games[game_id].game_type = "multiplayer"
  THEN LET r == MakeGuessMultiplayer(st, game_id, username, guess)
       IN  IF r.state = NoState
           THEN [st |-> r.st,
                 resp |-> [success |-> FALSE, error |-> r.error, state |-> NoState]]
           ELSE [st |-> r.st,
                 resp |-> [success |-> TRUE, error |-> None, state |-> r.state]]
  ELSE IF IsValidGuess(st, game_id, guess) # ""
  THEN [st |-> st,
        resp |-> [success |-> FALSE, error |-> IsValidGuess(st, game_id, guess),
                  state |-> NoState]]
  ELSE LET r == MakeGuess(st, game_id, guess)
       IN  [st |-> r.st,
            resp |-> [success |-> TRUE, error |-> None, state |-> r.state]]

\* get_state_endpoint
GetStateEndpoint(st, game_id, username) ==
  LET multiplayer == game_id \in DOMAIN st.games
                     /\ st.games[game_id].game_type = "multiplayer"
      state == IF multiplayer
               THEN GetMultiplayerGameState(st, game_id, username)
               ELSE GetGameState(st, game_id)
  IN  IF multiplayer /\ username = None
      THEN [success |-> FALSE,
            error |-> "Username is required for multiplayer games",
            state |-> NoState]
      ELSE IF state = NoState
      THEN [success |-> FALSE, error |-> "Game not found", state |-> NoState]
      ELSE [success |-> TRUE, error |-> None, state |-> state]

\* A state request that reclaims the room of a completed match as it reads.
GetStateHandlerReclaiming(st, game_id, username) ==
  [st |-> IF game_id \in DOMAIN st.games
             /\ st.games[game_id].game_type = "multiplayer"
             /\ AllPlayersGameOver(st.games[game_id])
          THEN CleanupCompletedGame(st, game_id)
          ELSE st,
   resp |-> GetStateEndpoint(st, game_id, username)]

\* The state request as a handler: the server state it leaves and its response.
\* get_state_endpoint and the two state builders assign to nothing.
GetStateHandler(st, game_id, username) ==
  [st |-> st, resp |-> GetStateEndpoint(st, game_id, username)]

\* get_opponent_info
GetOpponentInfo(st, game_id, username) ==
  LET Fail(msg) == [success |-> FALSE, error |-> msg, opponent |-> None,
                    target_word |-> NoWord, winner |-> None]
  IN  IF game_id \notin DOMAIN st.games THEN Fail("Game not found")
      ELSE IF username \notin DOMAIN st.games[game_id].players
      THEN Fail("Player not in game")
      ELSE LET game == st.games[game_id]
               others == OtherPlayers(game, username)
           IN  [success |-> TRUE, error |-> None,
                opponent |-> IF others = <<>> THEN None ELSE others[1],
                target_word |-> game.target_word,
                winner |-> game.winner]

\* get_rooms_status: rooms room_id..NumRooms, in order; result is the
\* dictionary built so far.
RECURSIVE GetRoomsStatusFrom(_, _, _)
GetRoomsStatusFrom(room_id, st, result) ==
  IF room_id > NumRooms THEN [st |-> st, result |-> result]
  ELSE
    LET st1 == IF RoomHasEndedGame(st, room_id)
               THEN CleanupCompletedGame(st, st.rooms[room_id].game_id)
               ELSE st
        room == st1.rooms[room_id]
        room_data ==
          [players |-> room.players,
           ready |-> room.ready,
           game_id |-> room.game_id,
           target_word |-> IF room.game_id # NoGame /\ room.game_id \in DOMAIN st1.games
                           THEN st1.games[room.game_id].target_word
                           ELSE NoWord]
    IN  GetRoomsStatusFrom(room_id + 1, st1, DictPut(result, room_id, room_data))

GetRoomsStatus(st) == GetRoomsStatusFrom(1, st, <<>>)

\* delete_game
DeleteGame(st, game_id) ==
  IF game_id \in DOMAIN st.games
  THEN [st |-> [st EXCEPT !.games = DictRemove(st.games, game_id)], success |-> TRUE]
  ELSE [st |-> st, success |-> FALSE]

(***************************************************************************)
(* The server as a state machine: one action per state-changing request    *)
(* handler, each handler one atomic step.  A response is the value the     *)
(* handler returns for the state it is called in; the two read-only        *)
(* requests (GetStateEndpoint, GetOpponentInfo) change nothing and are     *)
(* read off the current state.                                             *)
(***************************************************************************)
St == [rooms |-> rooms, games |-> games, nextId |-> nextId, dbCalls |-> dbCalls]

SetSt(st) ==
  /\ rooms' = st.rooms
  /\ games' = st.games
  /\ nextId' = st.nextId
  /\ dbCalls' = st.dbCalls

\* Room ids as requests name them: the three rooms and one that does not exist.
RoomInputs == RoomIds \cup {NumRooms + 1}

FirstModelWord == WORD_LIST[WordOrder[1]]

BadGuesses ==
  { SubSeq(FirstModelWord, 1, WordLen - 1),
    SubSeq(FirstModelWord, 1, WordLen - 1) \o <<"1">>,
    <<"Z", "Z", "Z", "Z", "Z">> }

\* A word as a client may send it: lower case, with blanks around it.
Lower(c) == LowerAlphabet[CHOOSE k \in DOMAIN Alphabet : Alphabet[k] = c]

RECURSIVE ToLower(_)
ToLower(s) == IF s = <<>> THEN <<>> ELSE <<Lower(Head(s))>> \o ToLower(Tail(s))

AsTyped(word) == <<" ">> \o ToLower(word) \o <<" ">>

TypedWords(words) == {AsTyped(w) : w \in words}

NoEval == [phase |-> "off"]

\* No request is being handled step by step.
NoThreads == <<>>

Init ==
  /\ rooms = InitServer.rooms
  /\ games = InitServer.games
  /\ nextId = InitServer.nextId
  /\ dbCalls = InitServer.dbCalls
  /\ ev = NoEval
  /\ threads = NoThreads
  /\ seen = {}

\* The values random.choice may return in a join: every word when the join
\* starts a match, and one arbitrary word when the choice is never made.
TargetChoices(room_id, username, words) ==
  LET any == CHOOSE w \in words : TRUE
  IN  IF JoinRoomHandler(St, room_id, username, any).resp.game_starting
      THEN words ELSE {any}

\* POST /api/rooms/<room_id>/join
JoinRoom(room_ids, users, words, maxGames) ==
  \E room_id \in room_ids, username \in users :
    \E target_word \in TargetChoices(room_id, username, words) :
      LET out == JoinRoomHandler(St, room_id, username, target_word)
      IN  /\ out.st.nextId <= maxGames + 1
          /\ SetSt(out.st)
          /\ UNCHANGED <<ev, threads, seen>>

\* POST /api/rooms/<room_id>/leave
LeaveRoom(room_ids, users) ==
  \E room_id \in room_ids, username \in users :
    /\ SetSt(LeaveRoomHandler(St, room_id, username).st)
    /\ UNCHANGED <<ev, threads, seen>>

\* GET /api/rooms
GetRooms ==
  /\ SetSt(GetRoomsStatus(St).st)
  /\ UNCHANGED <<ev, threads, seen>>

\* POST /api/game/<game_id>/guess
SubmitGuess(users, guesses, maxGames) ==
  \E game_id \in 1..maxGames, username \in users, guess \in guesses :
    /\ SetSt(MakeGuessEndpoint(St, game_id, username, guess).st)
    /\ UNCHANGED <<ev, threads, seen>>

\* DELETE /api/game/<game_id>
DeleteSession(maxGames) ==
  \E game_id \in 1..maxGames :
    /\ SetSt(DeleteGame(St, game_id).st)
    /\ UNCHANGED <<ev, threads, seen>>

\* Match play: two users, one match, every word of the model as target and guess.
Users == FirstUsers(NumUsers)

ModelWords == FirstWords(NumWords)

\* The guesses submitted: every word of the model as typed, and the malformed ones.
ModelGuesses == TypedWords(ModelWords) \cup BadGuesses

Next ==
  \/ JoinRoom(RoomIds, Users, ModelWords, MaxGames)
  \/ LeaveRoom(RoomIds, Users)
  \/ GetRooms
  \/ SubmitGuess(Users, ModelGuesses, MaxGames)
  \/ DeleteSession(MaxGames)

Spec == Init /\ [][Next]_vars

\* The room registry: a third user and a second match, fewer words.
RoomUsers == FirstUsers(NumRoomUsers)

RoomWords == FirstWords(NumRoomWords)

RoomGuesses == TypedWords(RoomWords)

NextRooms ==
  \/ JoinRoom(RoomInputs, RoomUsers, RoomWords, MaxRoomGames)
  \/ LeaveRoom(RoomIds, RoomUsers)
  \/ GetRooms
  \/ SubmitGuess(RoomUsers, RoomGuesses, MaxRoomGames)
  \/ DeleteSession(MaxRoomGames)

SpecRooms == Init /\ [][NextRooms]_vars

(***************************************************************************)
(* The evaluator on its own: every guess and target over a small alphabet. *)
(***************************************************************************)
EvalLetters == {Alphabet[i] : i \in 1..NumLetters}

EvalWords == [1..WordLen -> EvalLetters]

InitEval ==
  /\ rooms = InitServer.rooms
  /\ games = InitServer.games
  /\ nextId = InitServer.nextId
  /\ dbCalls = InitServer.dbCalls
  /\ threads = NoThreads
  /\ seen = {}
  /\ \E guess \in EvalWords, target \in EvalWords :
       ev = [phase |-> "input", guess |-> guess, target |-> target, result |-> <<>>]

Evaluate ==
  /\ ev.phase = "input"
  /\ ev' = [ev EXCEPT !.phase = "evaluated",
                      !.result = EvaluateGuessAgainstTarget(ev.guess, ev.target)]
  /\ UNCHANGED <<rooms, games, nextId, dbCalls, threads, seen>>

NextEval == Evaluate

SpecEval == InitEval /\ [][NextEval]_vars

\* The evaluator on whole words: the words of the word list and the two words
\* of the example in the documentation of _evaluate_guess_against_target.
ERASE == <<"E", "R", "A", "S", "E">>

SPEED == <<"S", "P", "E", "E", "D">>

ExampleWords == WordSet \cup {ERASE, SPEED}

InitEvalWords ==
  /\ rooms = InitServer.rooms
  /\ games = InitServer.games
  /\ nextId = InitServer.nextId
  /\ dbCalls = InitServer.dbCalls
  /\ threads = NoThreads
  /\ seen = {}
  /\ \E guess \in ExampleWords, target \in ExampleWords :
       ev = [phase |-> "input", guess |-> guess, target |-> target, result |-> <<>>]

SpecEvalWords == InitEvalWords /\ [][NextEval]_vars

\* The letter-status tracker on its own: every status map over the first
\* NumTrackLetters letters, every list of WordLen verdicts on those letters.
NumTrackLetters == 2

TrackLetters == {Alphabet[i] : i \in 1..NumTrackLetters}

TrackMaps ==
  {[l \in Letters |-> IF l \in TrackLetters THEN f[l] ELSE UNUSED] :
     f \in [TrackLetters -> LetterStatus]}

TrackEvaluations == [1..WordLen -> TrackLetters \X {HIT, PRESENT, MISS}]

InitTracker ==
  /\ rooms = InitServer.rooms
  /\ games = InitServer.games
  /\ nextId = InitServer.nextId
  /\ dbCalls = InitServer.dbCalls
  /\ threads = NoThreads
  /\ seen = {}
  /\ \E m \in TrackMaps, e \in TrackEvaluations :
       ev = [phase |-> "input", m |-> m, e |-> e, once |-> m, twice |-> m]

\* _update_letter_status(m, e), and again with the same e on its result.
ApplyTwice ==
  /\ ev.phase = "input"
  /\ ev' = [ev EXCEPT
              !.phase = "applied",
              !.once = UpdateLetterStatus(ev.m, ev.e),
              !.twice = UpdateLetterStatus(UpdateLetterStatus(ev.m, ev.e), ev.e)]
  /\ UNCHANGED <<rooms, games, nextId, dbCalls, threads, seen>>

NextTracker == ApplyTwice

SpecTracker == InitTracker /\ [][NextTracker]_vars

\* The server's routines beside the engine's, on the same inputs: every guess
\* and target over the first NumLetters letters for the evaluators, every
\* status map and list of verdicts of the tracker for the update routines.
InitEngines ==
  /\ rooms = InitServer.rooms
  /\ games = InitServer.games
  /\ nextId = InitServer.nextId
  /\ dbCalls = InitServer.dbCalls
  /\ threads = NoThreads
  /\ seen = {}
  /\ \/ \E guess \in EvalWords, target \in EvalWords :
          ev = [phase |-> "words", guess |-> guess, target |-> target,
                server |-> <<>>, engine |-> <<>>]
     \/ \E m \in TrackMaps, e \in TrackEvaluations :
          ev = [phase |-> "maps", m |-> m, e |-> e, server |-> m, engine |-> m]

\* Both evaluators on the guess, the engine holding the target.
EvaluateBoth ==
  /\ ev.phase = "words"
  /\ ev' = [ev EXCEPT
              !.phase = "evaluated",
              !.server = EvaluateGuessAgainstTarget(ev.guess, ev.target),
              !.engine = WordleGameEvaluateGuessAgainstTarget(
                           [target_word |-> ev.target], ev.guess)]
  /\ UNCHANGED <<rooms, games, nextId, dbCalls, threads, seen>>

\* Both update routines on the map and the verdicts.
UpdateBoth ==
  /\ ev.phase = "maps"
  /\ ev' = [ev EXCEPT
              !.phase = "updated",
              !.server = UpdateLetterStatus(ev.m, ev.e),
              !.engine = WordleGameUpdateLetterStatus(1, ev.m, ev.e)]
  /\ UNCHANGED <<rooms, games, nextId, dbCalls, threads, seen>>

NextEngines ==
  \/ EvaluateBoth
  \/ UpdateBoth

SpecEngines == InitEngines /\ [][NextEngines]_vars

\* The life of a session under Join, Leave and SubmitGuess alone.
NextSessions ==
  \/ JoinRoom(RoomIds, RoomUsers, RoomWords, MaxRoomGames)
  \/ LeaveRoom(RoomIds, RoomUsers)
  \/ SubmitGuess(RoomUsers, RoomGuesses, MaxRoomGames)

SpecSessions == Init /\ [][NextSessions]_vars

(***************************************************************************)
(* Single-player games beside a match: one room, two users, two words, and *)
(* max_rounds as a client may send it: absent, zero, negative, positive.   *)
(***************************************************************************)
MaxPlayGames == 2

NumPlayWords == 2

PlayWords == FirstWords(NumPlayWords)

PlayGuesses == TypedWords(PlayWords) \cup BadGuesses \cup {<<>>}

PlayRounds == {<<>>, <<0>>, <<-1>>, <<1>>, <<2>>}

PlayRooms == {1}

\* POST /api/new_game
NewGame(rounds, words, maxGames) ==
  \E max_rounds \in rounds, target_word \in words :
    LET out == CreateNewGame(St, max_rounds, target_word)
    IN  /\ out.st.nextId <= maxGames + 1
        /\ SetSt(out.st)
        /\ UNCHANGED <<ev, threads, seen>>

\* GET /api/game/<game_id>/state, for the ids of sessions and one more.
GetState(users, maxGames) ==
  \E game_id \in 1..(maxGames + 1), username \in users :
    /\ SetSt(GetStateHandler(St, game_id, username).st)
    /\ UNCHANGED <<ev, threads, seen>>

NextPlay ==
  \/ NewGame(PlayRounds, PlayWords, MaxPlayGames)
  \/ JoinRoom(PlayRooms, Users, PlayWords, MaxPlayGames)
  \/ SubmitGuess(Users, PlayGuesses, MaxPlayGames)

SpecPlay == Init /\ [][NextPlay]_vars

\* Single-player games and matches of one room, with the state request made by
\* players, by a user who is in no match, and with no username.
ReadUsers == RoomUsers \cup {None}

NextRead ==
  \/ NewGame(PlayRounds, PlayWords, MaxPlayGames)
  \/ JoinRoom(PlayRooms, Users, PlayWords, MaxPlayGames)
  \/ SubmitGuess(Users, PlayGuesses, MaxPlayGames)
  \/ GetState(ReadUsers, MaxPlayGames)

SpecRead == Init /\ [][NextRead]_vars

(***************************************************************************)
(* The multiplayer client, src/Client/multiplayer_client.py: one client of *)
(* a match, its Tk thread and its polling thread, against the server.      *)
(* threads holds the client object and the position and locals of the two  *)
(* threads.  A step is one request or one statement on the client's        *)
(* fields.  The display callbacks, which touch none of these fields, are   *)
(* left out.                                                               *)
(***************************************************************************)
\* MultiplayerClient.__init__, lines 47-82: start_game_polling sets
\* polling_active.  pending counts the handle_game_end callbacks waiting in
\* Tk's queue, end_scheduled every root.after(..., self.handle_game_end) made,
\* ends_run the runs of handle_game_end.
NewClient(username, game_data) ==
  [username |-> username,
   game_id |-> game_data.game_id,
   room_id |-> game_data.room_id,
   opponent_name |-> CHOOSE p \in {game_data.players[i] : i \in DOMAIN game_data.players} :
                       p # username,
   game_state |-> NoState,
   game_end_handled |-> FALSE,
   polling_active |-> TRUE,
   pending |-> 0,
   end_scheduled |-> 0,
   ends_run |-> 0,
   destroyed |-> FALSE]

\* The first user waits in room 1, the second joins, the match starts and the
\* first user's client is built from the game data.
InitClient ==
  /\ \E target_word \in PlayWords :
       LET first == JoinRoomHandler(InitServer, 1, UserPool[1], target_word)
           second == JoinRoomHandler(first.st, 1, UserPool[2], target_word)
       IN  /\ rooms = second.st.rooms
           /\ games = second.st.games
           /\ nextId = second.st.nextId
           /\ dbCalls = second.st.dbCalls
           /\ threads = [client |-> NewClient(UserPool[1], second.resp.game_data),
                         ui |-> [pc |-> "idle", resp |-> [success |-> FALSE]],
                         poll |-> [pc |-> "loop", state |-> NoState]]
  /\ ev = NoEval
  /\ seen = {}

\* _poll_game, lines 591-601: the loop test and the state request.
PollRequest ==
  /\ threads.poll.pc = "loop"
  /\ IF ~threads.client.polling_active
     THEN /\ threads' = [threads EXCEPT !.poll.pc = "exited"]
          /\ UNCHANGED <<rooms, games, nextId, dbCalls>>
     ELSE LET out == GetStateHandler(St, threads.client.game_id,
                                     threads.client.username)
          IN  /\ SetSt(out.st)
              /\ IF out.resp.success
                 THEN threads' = [threads EXCEPT !.poll.pc = "store",
                                                 !.poll.state = out.resp.state]
                 ELSE UNCHANGED threads
  /\ UNCHANGED <<ev, seen>>

\* Line 605: self.game_state = state.
PollStore ==
  /\ threads.poll.pc = "store"
  /\ threads' = [threads EXCEPT !.client.game_state = threads.poll.state,
                                !.poll.pc = "check"]
  /\ UNCHANGED <<rooms, games, nextId, dbCalls, ev, seen>>

\* Line 619: the test of the response and of game_end_handled.
PollCheck ==
  /\ threads.poll.pc = "check"
  /\ threads' = [threads EXCEPT
                   !.poll.pc = IF /\ threads.poll.state.entire_game_over
                                  /\ ~threads.client.game_end_handled
                               THEN "set" ELSE "loop"]
  /\ UNCHANGED <<rooms, games, nextId, dbCalls, ev, seen>>

\* Line 620: self.game_end_handled = True.
PollSet ==
  /\ threads.poll.pc = "set"
  /\ threads' = [threads EXCEPT !.client.game_end_handled = TRUE,
                                !.poll.pc = "schedule"]
  /\ UNCHANGED <<rooms, games, nextId, dbCalls, ev, seen>>

\* Lines 621-624: root.after(0, self.handle_game_end), then break.
PollSchedule ==
  /\ threads.poll.pc = "schedule"
  /\ threads' = [threads EXCEPT
                   !.client.pending = threads.client.pending + 1,
                   !.client.end_scheduled = threads.client.end_scheduled + 1,
                   !.poll.pc = "exited"]
  /\ UNCHANGED <<rooms, games, nextId, dbCalls, ev, seen>>

\* submit_guess, lines 360-383, and the request of submit_guess_to_server,
\* lines 388-396: a five-letter input is sent; a refusal ends in a dialog.
UiPost ==
  /\ threads.ui.pc = "idle"
  /\ ~threads.client.destroyed
  /\ threads.client.game_state # NoState
  /\ ~threads.client.game_state.game_over
  /\ threads.client.game_state.current_round < threads.client.game_state.max_rounds
  /\ \E guess \in PlayWords :
       LET out == MakeGuessEndpoint(St, threads.client.game_id,
                                    threads.client.username, guess)
       IN  /\ SetSt(out.st)
           /\ IF out.resp.success
              THEN threads' = [threads EXCEPT !.ui.pc = "store", !.ui.resp = out.resp]
              ELSE UNCHANGED threads
  /\ UNCHANGED <<ev, seen>>

\* Line 399: self.game_state = data["state"].
UiStore ==
  /\ threads.ui.pc = "store"
  /\ threads' = [threads EXCEPT !.client.game_state = threads.ui.resp.state,
                                !.ui.pc = "check"]
  /\ UNCHANGED <<rooms, games, nextId, dbCalls, ev, seen>>

\* Line 409: the test of self.game_state and of game_end_handled.
UiCheck ==
  /\ threads.ui.pc = "check"
  /\ threads' = [threads EXCEPT
                   !.ui.pc = IF /\ threads.client.game_state.entire_game_over
                                /\ ~threads.client.game_end_handled
                             THEN "set" ELSE "idle"]
  /\ UNCHANGED <<rooms, games, nextId, dbCalls, ev, seen>>

\* Line 410: self.game_end_handled = True.
UiSet ==
  /\ threads.ui.pc = "set"
  /\ threads' = [threads EXCEPT !.client.game_end_handled = TRUE,
                                !.ui.pc = "schedule"]
  /\ UNCHANGED <<rooms, games, nextId, dbCalls, ev, seen>>

\* Lines 412-416: root.after(1000, self.handle_game_end), then return.
UiSchedule ==
  /\ threads.ui.pc = "schedule"
  /\ threads' = [threads EXCEPT
                   !.client.pending = threads.client.pending + 1,
                   !.client.end_scheduled = threads.client.end_scheduled + 1,
                   !.ui.pc = "idle"]
  /\ UNCHANGED <<rooms, games, nextId, dbCalls, ev, seen>>

\* Tk runs a waiting handle_game_end on its thread: stop_game_polling, the
\* result dialog, end_game (leave the room), and on_game_end, whose
\* show_lobby destroys the client and cancels the callbacks still waiting.
HandleGameEnd ==
  /\ threads.ui.pc = "idle"
  /\ threads.client.pending > 0
  /\ SetSt(LeaveRoomHandler(St, threads.client.room_id, threads.client.username).st)
  /\ threads' = [threads EXCEPT
                   !.client.polling_active = FALSE,
                   !.client.pending = 0,
                   !.client.ends_run = threads.client.ends_run + 1,
                   !.client.destroyed = TRUE]
  /\ UNCHANGED <<ev, seen>>

\* The other player's guess arrives at the server.
OpponentGuess ==
  /\ \E guess \in PlayWords :
       SetSt(MakeGuessEndpoint(St, threads.client.game_id,
                               threads.client.opponent_name, guess).st)
  /\ UNCHANGED <<ev, threads, seen>>

NextClient ==
  \/ PollRequest
  \/ PollStore
  \/ PollCheck
  \/ PollSet
  \/ PollSchedule
  \/ UiPost
  \/ UiStore
  \/ UiCheck
  \/ UiSet
  \/ UiSchedule
  \/ HandleGameEnd
  \/ OpponentGuess

SpecClient == InitClient /\ [][NextClient]_vars

(***************************************************************************)
(* The table of sessions under every operation that adds or removes one:   *)
(* single-player games and matches of one room, two users, two words.      *)
(***************************************************************************)
TableRounds == {<<>>, <<1>>}

NextTable ==
  \/ NewGame(TableRounds, PlayWords, MaxPlayGames)
  \/ JoinRoom(PlayRooms, Users, PlayWords, MaxPlayGames)
  \/ LeaveRoom(PlayRooms, Users)
  \/ GetRooms
  \/ SubmitGuess(Users, TypedWords(PlayWords), MaxPlayGames)
  \/ DeleteSession(MaxPlayGames)

SpecTable == Init /\ [][NextTable]_vars

(***************************************************************************)
(* Who has been shown the end of a match.  seen holds <<game_id, username>> *)
(* for every player to whom a response has delivered a state of that game  *)
(* with entire_game_over true.  Sessions leave the table here only by the  *)
(* cleanup of join_room, leave_room and get_rooms_status.                  *)
(***************************************************************************)
ShownEnd(resp, game_id, username) ==
  IF resp.success /\ resp.state.entire_game_over
  THEN {<<game_id, username>>} ELSE {}

\* POST /api/game/<game_id>/guess, and the state its response delivers.
SubmitGuessAndRead(users, guesses, maxGames) ==
  \E game_id \in 1..maxGames, username \in users, guess \in guesses :
    LET out == MakeGuessEndpoint(St, game_id, username, guess)
    IN  /\ SetSt(out.st)
        /\ seen' = seen \cup ShownEnd(out.resp, game_id, username)
        /\ UNCHANGED <<ev, threads>>

\* GET /api/game/<game_id>/state
ReadState(users, maxGames) ==
  \E game_id \in 1..maxGames, username \in users :
    /\ seen' = seen \cup ShownEnd(GetStateEndpoint(St, game_id, username),
                                  game_id, username)
    /\ UNCHANGED <<rooms, games, nextId, dbCalls, ev, threads>>

NextCleanup ==
  \/ JoinRoom(RoomIds, Users, RoomWords, MaxGames)
  \/ LeaveRoom(RoomIds, Users)
  \/ GetRooms
  \/ SubmitGuessAndRead(Users, RoomGuesses, MaxGames)
  \/ ReadState(Users, MaxGames)

SpecCleanup == Init /\ [][NextCleanup]_vars

(***************************************************************************)
(* Concurrent requests.  The server is run by app.run (line 1025), which   *)
(* handles each request in a thread of its own, and no handler takes a     *)
(* lock: the statements of two handlers can interleave.  A handler is      *)
(* taken here in steps of one or a few statements each; every interleaving *)
(* of these steps is an interleaving of the program.                       *)
(***************************************************************************)
NumThreads == 2

Threads == 1..NumThreads

IdleThread == [pc |-> "idle"]

\* The thread's request is answered.
Done(t, resp) == threads' = [threads EXCEPT ![t].pc = "done", ![t].resp = resp]

Goto(t, pc) == threads' = [threads EXCEPT ![t].pc = pc]

\* The users whose Join calls run concurrently, and the user who may be
\* waiting in room 1 when they start.
WaitingUser == UserPool[1]

RaceJoiners == RoomUsers \ {WaitingUser}

\* The server when the concurrent calls arrive: as constructed, or with one
\* user waiting in room 1.
InitJoinRace ==
  /\ \E pre \in {InitServer,
                 JoinRoomHandler(InitServer, 1, WaitingUser, FirstModelWord).st} :
       /\ rooms = pre.rooms
       /\ games = pre.games
       /\ nextId = pre.nextId
       /\ dbCalls = pre.dbCalls
  /\ ev = NoEval
  /\ threads = [t \in Threads |-> IdleThread]
  /\ seen = {}

\* POST /api/rooms/<room_id>/join arrives; each caller is a different user.
JoinBegin(t) ==
  /\ threads[t].pc = "idle"
  /\ \E room_id \in RoomIds, username \in RaceJoiners :
       /\ \A o \in Threads \ {t} :
            threads[o].pc # "idle" => threads[o].username # username
       /\ threads' = [threads EXCEPT
                        ![t] = [pc |-> "check", room_id |-> room_id,
                                username |-> username, resp |-> NoData]]
  /\ UNCHANGED <<rooms, games, nextId, dbCalls, ev, seen>>

\* join_room, lines 268-279: the room exists; an ended game is cleaned up.
JoinCheckRoom(t) ==
  /\ threads[t].pc = "check"
  /\ LET room_id == threads[t].room_id
     IN  IF room_id \notin DOMAIN rooms
         THEN /\ Done(t, [success |-> FALSE, error |-> "Room does not exist",
                          game_starting |-> FALSE, game_data |-> NoData])
              /\ UNCHANGED <<rooms, games, nextId, dbCalls>>
         ELSE /\ SetSt(IF RoomHasEndedGame(St, room_id)
                       THEN CleanupCompletedGame(St, rooms[room_id].game_id)
                       ELSE St)
              /\ Goto(t, "capacity")
  /\ UNCHANGED <<ev, seen>>

\* join_room, lines 281-284
JoinCheckCapacity(t) ==
  /\ threads[t].pc = "capacity"
  /\ IF RoomIsFull(rooms[threads[t].room_id], threads[t].username)
     THEN Done(t, [success |-> FALSE, error |-> "Room is full",
                   game_starting |-> FALSE, game_data |-> NoData])
     ELSE Goto(t, "leave")
  /\ UNCHANGED <<rooms, games, nextId, dbCalls, ev, seen>>

\* join_room, lines 286-297: the user leaves this room and every other room.
JoinLeaveRooms(t) ==
  /\ threads[t].pc = "leave"
  /\ LET room_id == threads[t].room_id
         username == threads[t].username
         room == rooms[room_id]
         rooms2 == [rooms EXCEPT
                      ![room_id] = [players |-> IF InList(room.players, username)
                                                THEN ListRemove(room.players, username)
                                                ELSE room.players,
                                    ready |-> room.ready \ {username},
                                    game_id |-> room.game_id]]
     IN  rooms' = LeaveOtherRooms(rooms2, username)
  /\ Goto(t, "append")
  /\ UNCHANGED <<games, nextId, dbCalls, ev, seen>>

\* join_room, lines 299-300
JoinAppend(t) ==
  /\ threads[t].pc = "append"
  /\ LET room_id == threads[t].room_id
         username == threads[t].username
     IN  rooms' = [rooms EXCEPT
                     ![room_id].players = Append(rooms[room_id].players, username),
                     ![room_id].ready = rooms[room_id].ready \cup {username}]
  /\ Goto(t, "start_check")
  /\ UNCHANGED <<games, nextId, dbCalls, ev, seen>>

\* join_room, lines 305 and 310: the room now lists 2 players, or not.
JoinCheckStart(t) ==
  /\ threads[t].pc = "start_check"
  /\ IF Len(rooms[threads[t].room_id].players) = RoomCapacity
     THEN Goto(t, "start")
     ELSE Done(t, [success |-> TRUE, error |-> None,
                   game_starting |-> FALSE, game_data |-> NoData])
  /\ UNCHANGED <<rooms, games, nextId, dbCalls, ev, seen>>

\* join_room, lines 306-308: start_multiplayer_game and the answer.
JoinStart(t) ==
  /\ threads[t].pc = "start"
  /\ \E target_word \in RoomWords :
       LET started == StartMultiplayerGame(St, threads[t].room_id, target_word)
       IN  /\ SetSt(started.st)
           /\ Done(t, [success |-> TRUE, error |-> None,
                       game_starting |-> TRUE, game_data |-> started.data])
  /\ UNCHANGED <<ev, seen>>

NextJoinRace ==
  \E t \in Threads :
    \/ JoinBegin(t)
    \/ JoinCheckRoom(t)
    \/ JoinCheckCapacity(t)
    \/ JoinLeaveRooms(t)
    \/ JoinAppend(t)
    \/ JoinCheckStart(t)
    \/ JoinStart(t)

SpecJoinRace == InitJoinRace /\ [][NextJoinRace]_vars

\* Two concurrent SubmitGuess calls: thread t serves player t of a match that
\* two joins on room 1 have started.
PlayerOfThread(t) == UserPool[t]

RaceGame == InitServer.nextId

InitGuessRace ==
  /\ \E target_word \in ModelWords :
       LET st1 == JoinRoomHandler(InitServer, 1, PlayerOfThread(1), target_word).st
           st2 == JoinRoomHandler(st1, 1, PlayerOfThread(2), target_word).st
       IN  /\ rooms = st2.rooms
           /\ games = st2.games
           /\ nextId = st2.nextId
           /\ dbCalls = st2.dbCalls
  /\ ev = NoEval
  /\ threads = [t \in Threads |-> IdleThread]
  /\ seen = {}

\* The handler returns: get_multiplayer_game_state of the state st it leaves.
Answered(t, st) ==
  threads' = [threads EXCEPT
                ![t].pc = "done",
                ![t].resp = GetMultiplayerGameState(st, threads[t].game_id,
                                                    threads[t].username)]

\* POST /api/game/<game_id>/guess arrives for the thread's player.
GuessBegin(t) ==
  /\ threads[t].pc \in {"idle", "done"}
  /\ \E guess \in ModelGuesses :
       threads' = [threads EXCEPT
                     ![t] = [pc |-> "validate", game_id |-> RaceGame,
                             username |-> PlayerOfThread(t), guess |-> guess,
                             resp |-> NoState]]
  /\ UNCHANGED <<rooms, games, nextId, dbCalls, ev, seen>>

\* make_guess_multiplayer, lines 405-432: the checks that reject a guess.
GuessValidate(t) ==
  /\ threads[t].pc = "validate"
  /\ LET game_id == threads[t].game_id
         username == threads[t].username
         normalized_guess == Normalize(threads[t].guess)
     IN  IF \/ game_id \notin DOMAIN games
            \/ username \notin DOMAIN games[game_id].players
            \/ games[game_id].players[username].selected_word = NoWord
            \/ games[game_id].players[username].game_over
            \/ games[game_id].players[username].current_round
                 >= games[game_id].players[username].max_rounds
            \/ Len(normalized_guess) # WordLen
            \/ ~IsAlpha(normalized_guess)
            \/ normalized_guess \notin WordSet
         THEN threads' = [threads EXCEPT ![t].pc = "done", ![t].resp = NoState]
         ELSE threads' = [threads EXCEPT ![t].pc = "record",
                                         ![t].guess = normalized_guess]
  /\ UNCHANGED <<rooms, games, nextId, dbCalls, ev, seen>>

\* make_guess_multiplayer, lines 434-445: evaluate, record, track letters.
GuessRecord(t) ==
  /\ threads[t].pc = "record"
  /\ LET game_id == threads[t].game_id
         username == threads[t].username
         player_data == games[game_id].players[username]
         evaluations ==
           EvaluateGuessAgainstTarget(threads[t].guess, player_data.selected_word)
     IN  games' = [games EXCEPT ![game_id].players[username] =
                     [player_data EXCEPT
                        !.current_round = player_data.current_round + 1,
                        !.guesses = Append(player_data.guesses, threads[t].guess),
                        !.guess_results = Append(player_data.guess_results, evaluations),
                        !.letter_status =
                           UpdateLetterStatus(player_data.letter_status, evaluations)]]
  /\ Goto(t, "branch")
  /\ UNCHANGED <<rooms, nextId, dbCalls, ev, seen>>

\* make_guess_multiplayer, lines 448 and 472: the branch taken.
GuessBranch(t) ==
  /\ threads[t].pc = "branch"
  /\ LET player_data == games[threads[t].game_id].players[threads[t].username]
         outcome == GuessOutcome(threads[t].guess, player_data.selected_word,
                                 player_data)
     IN  IF outcome = "won" THEN Goto(t, "win")
         ELSE IF outcome = "exhausted" THEN Goto(t, "exhaust")
         ELSE Answered(t, St)
  /\ UNCHANGED <<rooms, games, nextId, dbCalls, ev, seen>>

\* make_guess_multiplayer, lines 449-451: the guesser has won.
GuessWinSelf(t) ==
  /\ threads[t].pc = "win"
  /\ games' = [games EXCEPT
                 ![threads[t].game_id].players[threads[t].username].won = TRUE,
                 ![threads[t].game_id].players[threads[t].username].game_over = TRUE,
                 ![threads[t].game_id].winner = threads[t].username]
  /\ Goto(t, "win_others")
  /\ UNCHANGED <<rooms, nextId, dbCalls, ev, seen>>

\* make_guess_multiplayer, lines 453-457: every other player has lost.
GuessWinOthers(t) ==
  /\ threads[t].pc = "win_others"
  /\ LET game == games[threads[t].game_id]
     IN  games' = [games EXCEPT
                     ![threads[t].game_id].players =
                        [u \in DOMAIN game.players |->
                           IF u = threads[t].username THEN game.players[u]
                           ELSE [game.players[u] EXCEPT !.game_over = TRUE,
                                                        !.won = FALSE]]]
  /\ Goto(t, "win_stats")
  /\ UNCHANGED <<rooms, nextId, dbCalls, ev, seen>>

\* make_guess_multiplayer, lines 459-463 and 490: the statistics of the win.
GuessWinStats(t) ==
  /\ threads[t].pc = "win_stats"
  /\ LET game == games[threads[t].game_id]
         calls == <<StatsCall(threads[t].username, TRUE)>>
                  \o StatsCallsFor(OtherPlayers(game, threads[t].username), FALSE)
     IN  dbCalls' = RecordCalls(dbCalls, threads[t].game_id, calls)
  /\ Answered(t, St)
  /\ UNCHANGED <<rooms, games, nextId, ev, seen>>

\* make_guess_multiplayer, line 473: out of attempts.
GuessExhaust(t) ==
  /\ threads[t].pc = "exhaust"
  /\ games' = [games EXCEPT
                 ![threads[t].game_id].players[threads[t].username].game_over = TRUE]
  /\ Goto(t, "all_done")
  /\ UNCHANGED <<rooms, nextId, dbCalls, ev, seen>>

\* make_guess_multiplayer, lines 475-485: are all players done, with no winner?
GuessAllDone(t) ==
  /\ threads[t].pc = "all_done"
  /\ LET game == games[threads[t].game_id]
     IN  IF AllPlayersGameOver(game) /\ game.winner = None
         THEN Goto(t, "decide")
         ELSE Answered(t, St)
  /\ UNCHANGED <<rooms, games, nextId, dbCalls, ev, seen>>

\* make_guess_multiplayer, line 485: _determine_winner_by_hits, then line 490.
GuessDecide(t) ==
  /\ threads[t].pc = "decide"
  /\ LET decided == DetermineWinnerByHits(games[threads[t].game_id])
         st1 == [St EXCEPT
                   !.games[threads[t].game_id] = decided.game,
                   !.dbCalls = RecordCalls(dbCalls, threads[t].game_id, decided.calls)]
     IN  /\ games' = st1.games
         /\ dbCalls' = st1.dbCalls
         /\ Answered(t, st1)
  /\ UNCHANGED <<rooms, nextId, ev, seen>>

NextGuessRace ==
  \E t \in Threads :
    \/ GuessBegin(t)
    \/ GuessValidate(t)
    \/ GuessRecord(t)
    \/ GuessBranch(t)
    \/ GuessWinSelf(t)
    \/ GuessWinOthers(t)
    \/ GuessWinStats(t)
    \/ GuessExhaust(t)
    \/ GuessAllDone(t)
    \/ GuessDecide(t)

SpecGuessRace == InitGuessRace /\ [][NextGuessRace]_vars

(***************************************************************************)
(* Properties.                                                             *)
(***************************************************************************)
Positions == 1..WordLen

\* The positions of an evaluation that give letter one of the verdicts.
VerdictPositions(result, letter, verdicts) ==
  {i \in DOMAIN result : result[i][1] = letter /\ result[i][2] \in verdicts}

Occurrences(word, letter) == {i \in DOMAIN word : word[i] = letter}

\* C1: an evaluation has 5 verdicts, in position order; its HIT verdicts are
\* as many as the positions where guess and target agree; and no letter gets
\* more HIT and PRESENT verdicts than it has occurrences in the target.
C1_EvaluateCounts ==
  ev.phase = "evaluated" =>
    /\ Len(ev.result) = WordLen
    /\ \A i \in Positions :
         ev.result[i][1] = ev.guess[i] /\ ev.result[i][2] \in {HIT, PRESENT, MISS}
    /\ Cardinality({i \in Positions : ev.result[i][2] = HIT})
         = Cardinality({i \in Positions : ev.guess[i] = ev.target[i]})
    /\ \A letter \in EvalLetters :
         Cardinality(VerdictPositions(ev.result, letter, {HIT, PRESENT}))
           <= Cardinality(Occurrences(ev.target, letter))

\* An evaluated guess that repeats a letter more often than the target holds
\* it: one occurrence is a HIT, one is PRESENT and one is a MISS.
C1_Witness ==
  /\ ev.phase = "evaluated"
  /\ \E letter \in EvalLetters :
       /\ VerdictPositions(ev.result, letter, {HIT}) # {}
       /\ VerdictPositions(ev.result, letter, {PRESENT}) # {}
       /\ VerdictPositions(ev.result, letter, {MISS}) # {}
       /\ Cardinality(Occurrences(ev.guess, letter))
            > Cardinality(Occurrences(ev.target, letter))

Rank(status) ==
  CASE status = UNUSED -> 0
    [] status = MISS -> 1
    [] status = PRESENT -> 2
    [] status = HIT -> 3

PlayersOf(g) == DOMAIN games[g].players

\* C2: from one state to the next, no letter of any player's letter_status
\* takes a lower value in the order UNUSED < MISS < PRESENT < HIT; in
\* particular a letter that is HIT stays HIT.
C2_StatusMonotone ==
  [][\A g \in DOMAIN games \cap DOMAIN games' :
       \A u \in PlayersOf(g) : \A letter \in Letters :
         Rank(games'[g].players[u].letter_status[letter])
           >= Rank(games[g].players[u].letter_status[letter])]_vars

\* A player whose letter was a HIT in an earlier guess and got a lower verdict
\* in the last guess, and is still tracked as HIT.
C2_Witness ==
  \E g \in DOMAIN games : \E u \in PlayersOf(g) : \E letter \in Letters :
    LET pd == games[g].players[u]
        n == Len(pd.guess_results)
    IN  /\ n >= 2
        /\ \E k \in 1..(n - 1) : VerdictPositions(pd.guess_results[k], letter, {HIT}) # {}
        /\ VerdictPositions(pd.guess_results[n], letter, {PRESENT, MISS}) # {}
        /\ VerdictPositions(pd.guess_results[n], letter, {HIT}) = {}
        /\ pd.letter_status[letter] = HIT

\* C3: no response delivered to a player of a match whose own game_over is
\* false holds the target word: not the state or the opponent summary read in
\* this state, not the rooms status, not the result of a guess, and not the
\* result of the join that starts a match.
C3_TargetNeverExposed ==
  /\ \A g \in DOMAIN games : \A u \in PlayersOf(g) :
       ~games[g].players[u].game_over =>
         /\ GetStateEndpoint(St, g, u).state.answer = NoWord
         /\ GetOpponentInfo(St, g, u).target_word = NoWord
         /\ \A r \in RoomIds :
              GetRoomsStatus(St).result[r].target_word # games[g].target_word
         /\ \A guess \in ModelGuesses :
              LET out == MakeGuessEndpoint(St, g, u, guess)
              IN  (out.resp.success /\ ~out.st.games[g].players[u].game_over)
                    => out.resp.state.answer = NoWord
  /\ \A r \in RoomIds : \A u \in Users : \A w \in ModelWords :
       LET out == JoinRoomHandler(St, r, u, w)
       IN  out.resp.game_starting => out.resp.game_data.target_word = NoWord

\* The match is complete: a winner is recorded or every player is game_over.
MatchComplete(game) ==
  game.winner # None \/ \A p \in DOMAIN game.players : game.players[p].game_over

\* What C4 asks of a state returned to player u of game.
VisibleStateOk(state, game, u) ==
  /\ (state.answer # NoWord) <=> MatchComplete(game)
  /\ state.answer # NoWord => state.answer = game.target_word
  /\ state.entire_game_over <=> MatchComplete(game)
  /\ state.game_over = game.players[u].game_over
  /\ ( /\ game.players[u].current_round = game.players[u].max_rounds
       /\ \E v \in DOMAIN game.players : ~game.players[v].game_over )
       => (state.game_over /\ ~state.entire_game_over /\ state.answer = NoWord)

\* C4: the state a player of a match gets from GetState, or from an accepted
\* SubmitGuess, holds the answer exactly when the match is complete, and
\* entire_game_over is true in exactly those states; a player out of attempts
\* whose opponent still plays sees game_over, not entire_game_over, no answer.
C4_AnswerOnlyWhenComplete ==
  \A g \in DOMAIN games : \A u \in PlayersOf(g) :
    /\ GetStateEndpoint(St, g, u).success
    /\ VisibleStateOk(GetStateEndpoint(St, g, u).state, games[g], u)
    /\ \A guess \in ModelGuesses :
         LET out == MakeGuessEndpoint(St, g, u, guess)
         IN  out.resp.success => VisibleStateOk(out.resp.state, out.st.games[g], u)

\* A player who used every attempt while the opponent is still playing.
C4_Witness ==
  \E g \in DOMAIN games : \E u \in PlayersOf(g) : \E v \in PlayersOf(g) :
    /\ games[g].players[u].current_round = DEFAULT_MAX_ROUNDS
    /\ games[g].players[u].game_over
    /\ ~games[g].players[v].game_over
    /\ GetStateEndpoint(St, g, u).state.answer = NoWord

\* C5: a step in which a player's accepted guess is the target word leaves
\* that player won and game_over, the match's winner that player, and every
\* other player game_over and not won.
C5_WinEndsMatch ==
  [][\A g \in DOMAIN games \cap DOMAIN games' : \A u \in PlayersOf(g) :
       games'[g].players[u].guesses
           = Append(games[g].players[u].guesses, games[g].target_word)
         => /\ games'[g].players[u].won
            /\ games'[g].players[u].game_over
            /\ games'[g].winner = u
            /\ \A v \in PlayersOf(g) \ {u} :
                 games'[g].players[v].game_over /\ ~games'[g].players[v].won]_vars

\* A match won by a guess while the opponent still had attempts left.
C5_Witness ==
  \E g \in DOMAIN games : \E u \in PlayersOf(g) : \E v \in PlayersOf(g) \ {u} :
    LET pd == games[g].players[u]
    IN  /\ pd.guesses # <<>>
        /\ pd.guesses[Len(pd.guesses)] = games[g].target_word
        /\ games[g].winner = u
        /\ games[g].players[v].current_round < games[g].players[v].max_rounds
        /\ games[g].players[v].game_over

\* The HIT verdicts in all the guess results of one player.
HitTotal(pd) ==
  Cardinality({ki \in (DOMAIN pd.guess_results) \X Positions :
                 pd.guess_results[ki[1]][ki[2]][2] = HIT})

Solved(pd) == \E k \in DOMAIN pd.guesses : pd.guesses[k] = pd.selected_word

\* Every player used every attempt and none solved the word.
AllExhaustedUnsolved(game) ==
  \A u \in DOMAIN game.players :
    /\ game.players[u].current_round = game.players[u].max_rounds
    /\ ~Solved(game.players[u])

\* C6: when both players are out of attempts, none solved the word and their
\* HIT totals are equal, the winner is DRAW, no player has won, and
\* update_user_stats was called once for each player, with won = FALSE.
C6_TieIsDraw ==
  \A g \in DOMAIN games :
    ( /\ AllExhaustedUnsolved(games[g])
      /\ \A u, v \in PlayersOf(g) :
           HitTotal(games[g].players[u]) = HitTotal(games[g].players[v]) )
      => /\ games[g].winner = "DRAW"
         /\ \A u \in PlayersOf(g) : ~games[g].players[u].won
         /\ Len(CallsOf(dbCalls, g)) = Cardinality(PlayersOf(g))
         /\ \A u \in PlayersOf(g) :
              \E i \in DOMAIN CallsOf(dbCalls, g) : CallsOf(dbCalls, g)[i].username = u
         /\ \A i \in DOMAIN CallsOf(dbCalls, g) : ~CallsOf(dbCalls, g)[i].won

\* A draw between two players with at least one HIT each.
C6_Witness ==
  \E g \in DOMAIN games :
    /\ games[g].winner = "DRAW"
    /\ AllExhaustedUnsolved(games[g])
    /\ \A u \in PlayersOf(g) : HitTotal(games[g].players[u]) > 0

\* The winner of the match was set without any player solving the word.
DecidedByHits(game) ==
  /\ game.winner # None
  /\ \A u \in DOMAIN game.players : ~Solved(game.players[u])

\* C7: a winner is set without a solving guess only when both players are
\* game_over, out of attempts and unsolved; and when both are, the player
\* with strictly more HIT verdicts over all guesses is the winner.
C7_HitCountDecides ==
  \A g \in DOMAIN games :
    /\ DecidedByHits(games[g]) =>
         /\ AllExhaustedUnsolved(games[g])
         /\ \A u \in PlayersOf(g) : games[g].players[u].game_over
    /\ AllExhaustedUnsolved(games[g]) =>
         \A u, v \in PlayersOf(g) :
           HitTotal(games[g].players[u]) > HitTotal(games[g].players[v])
             => /\ games[g].winner = u
                /\ games[g].players[u].won
                /\ ~games[g].players[v].won

\* A match decided by the hit counts, the winner having strictly more.
C7_Witness ==
  \E g \in DOMAIN games : \E u, v \in PlayersOf(g) :
    /\ AllExhaustedUnsolved(games[g])
    /\ HitTotal(games[g].players[u]) > HitTotal(games[g].players[v])
    /\ games[g].winner = u

\* C8: a player who guessed the target word is the winner, whatever the HIT
\* totals, and the only update_user_stats calls of the match are the two of
\* the win: the hit-count comparison was not applied.
C8_SolvingBeatsHitCount ==
  \A g \in DOMAIN games : \A u \in PlayersOf(g) :
    Solved(games[g].players[u]) =>
      /\ games[g].winner = u
      /\ games[g].players[u].won /\ games[g].players[u].game_over
      /\ \A v \in PlayersOf(g) \ {u} :
           /\ games[g].players[v].game_over /\ ~games[g].players[v].won
           /\ CallsOf(dbCalls, g) = <<[username |-> u, won |-> TRUE],
                                      [username |-> v, won |-> FALSE]>>

\* A player who solved on the last attempt, after the opponent used every
\* attempt and collected more HIT verdicts.
C8_Witness ==
  \E g \in DOMAIN games : \E u \in PlayersOf(g) : \E v \in PlayersOf(g) \ {u} :
    LET pd == games[g].players[u]
    IN  /\ pd.current_round = pd.max_rounds
        /\ pd.guesses[Len(pd.guesses)] = games[g].target_word
        /\ games[g].players[v].current_round = games[g].players[v].max_rounds
        /\ ~Solved(games[g].players[v])
        /\ HitTotal(games[g].players[v]) > HitTotal(pd)
        /\ games[g].winner = u

\* The rooms that list user u.
RoomsOf(rms, u) == {r \in DOMAIN rms : InList(rms[r].players, u)}

\* The room pool is rooms 1..3, every room lists at most 2 usernames, all
\* distinct, and no username is listed in two rooms.
RoomPoolOk(rms) ==
  /\ DOMAIN rms = 1..NumRooms
  /\ \A r \in DOMAIN rms :
       /\ Len(rms[r].players) \in 0..RoomCapacity
       /\ \A i, j \in DOMAIN rms[r].players :
            i # j => rms[r].players[i] # rms[r].players[j]
  /\ \A u \in RoomUsers : Cardinality(RoomsOf(rms, u)) <= 1

\* Room r references a session of the table whose players are all game_over.
ReferencesEndedSession(r) ==
  /\ rooms[r].game_id \in DOMAIN games
  /\ \A p \in DOMAIN games[rooms[r].game_id].players :
       games[rooms[r].game_id].players[p].game_over

\* C9 as stated: the pool is well formed in every reachable state, and a
\* successful Join(r, u) in this state leaves u in room r only and every
\* other user in the rooms they were in.
C9_JoinKeepsOthers ==
  /\ RoomPoolOk(rooms)
  /\ \A r \in RoomInputs : \A u \in RoomUsers : \A w \in RoomWords :
       LET out == JoinRoomHandler(St, r, u, w)
       IN  out.resp.success =>
             /\ RoomsOf(out.st.rooms, u) = {r}
             /\ \A v \in RoomUsers \ {u} :
                  RoomsOf(out.st.rooms, v) = RoomsOf(rooms, v)

\* C9, amended: the same, except that a Join on a room that references a
\* session whose players are all game_over first empties that room, so its
\* previous occupants are in no room afterwards.
C9_RoomMembership ==
  /\ RoomPoolOk(rooms)
  /\ \A r \in RoomInputs : \A u \in RoomUsers : \A w \in RoomWords :
       LET out == JoinRoomHandler(St, r, u, w)
       IN  out.resp.success =>
             /\ RoomsOf(out.st.rooms, u) = {r}
             /\ \A v \in RoomUsers \ {u} :
                  RoomsOf(out.st.rooms, v)
                    = IF ReferencesEndedSession(r) /\ r \in RoomsOf(rooms, v)
                      THEN {}
                      ELSE RoomsOf(rooms, v)

\* A user in one room, and another room that holds a second user and
\* references a finished session: a Join there moves the first user and
\* reclaims the room.
C9_Witness ==
  \E r1, r2 \in RoomIds : \E u, v \in RoomUsers :
    /\ r1 # r2 /\ u # v
    /\ RoomsOf(rooms, u) = {r1}
    /\ RoomsOf(rooms, v) = {r2}
    /\ ReferencesEndedSession(r2)
    /\ JoinRoomHandler(St, r2, u, FirstModelWord).resp.success
    /\ \E r3 \in RoomIds : \E x \in RoomUsers \ {u, v} :
         /\ RoomsOf(rooms, x) = {r3}
         /\ ~ReferencesEndedSession(r3)
         /\ Len(rooms[r3].players) = 1

\* The join started a match of u and v on room r with target w.
StartsMatch(out, r, u, v, w) ==
  LET gid == out.resp.game_data.game_id
  IN  /\ out.resp.success /\ out.resp.game_starting
      /\ gid \notin DOMAIN games
      /\ DOMAIN out.st.games = DOMAIN games \cup {gid}
      /\ \A g \in DOMAIN games : out.st.games[g] = games[g]
      /\ out.st.games[gid].game_type = "multiplayer"
      /\ DOMAIN out.st.games[gid].players = {u, v}
      /\ out.st.games[gid].target_word = w
      /\ out.st.games[gid].winner = None
      /\ \A p \in {u, v} :
           LET pd == out.st.games[gid].players[p]
           IN  /\ pd.selected_word = w
               /\ pd.current_round = 0
               /\ pd.guesses = <<>> /\ pd.guess_results = <<>>
               /\ ~pd.game_over /\ ~pd.won
               /\ \A letter \in Letters : pd.letter_status[letter] = UNUSED
      /\ out.st.rooms[r].game_id = gid
      /\ out.st.rooms[r].players = <<v, u>>
      /\ out.resp.game_data.players = <<v, u>>

\* The join started nothing.
StartsNoMatch(out) ==
  /\ out.resp.success /\ ~out.resp.game_starting
  /\ DOMAIN out.st.games \subseteq DOMAIN games
  /\ out.st.nextId = nextId

\* C10 as stated: a Join on a room that lists exactly one other user starts a
\* match of the two, and a Join on a room that lists nobody starts none.
C10_SecondJoinStarts ==
  \A r \in RoomIds : \A u \in RoomUsers : \A w \in RoomWords :
    LET out == JoinRoomHandler(St, r, u, w)
    IN  /\ \A v \in RoomUsers \ {u} :
             rooms[r].players = <<v>> => StartsMatch(out, r, u, v, w)
        /\ rooms[r].players = <<>> => StartsNoMatch(out)

\* C10, amended: the room must not reference a session whose players are all
\* game_over (such a room is emptied before the joiner is added).
C10_SecondJoinStartsUnlessEnded ==
  \A r \in RoomIds : \A u \in RoomUsers : \A w \in RoomWords :
    LET out == JoinRoomHandler(St, r, u, w)
    IN  /\ \A v \in RoomUsers \ {u} :
             (rooms[r].players = <<v>> /\ ~ReferencesEndedSession(r))
               => StartsMatch(out, r, u, v, w)
        /\ rooms[r].players = <<>> => StartsNoMatch(out)

\* The second match of a run, just started on a room by the join of its
\* second player, the first match, of another pair, still in the table.
C10_Witness ==
  \E r \in RoomIds :
    /\ Len(rooms[r].players) = 2
    /\ rooms[r].game_id = 2
    /\ 1 \in DOMAIN games /\ 2 \in DOMAIN games
    /\ DOMAIN games[2].players = {rooms[r].players[1], rooms[r].players[2]}
    /\ DOMAIN games[1].players # DOMAIN games[2].players
    /\ \A p \in DOMAIN games[2].players :
         games[2].players[p].current_round = 0 /\ ~games[2].players[p].game_over

\* Room r lists exactly two players, and they are the players of the match
\* the room references, which is not over for all of them.
MatchInProgressIn(r) ==
  /\ Len(rooms[r].players) = RoomCapacity
  /\ rooms[r].game_id \in DOMAIN games
  /\ DOMAIN games[rooms[r].game_id].players
       = {rooms[r].players[1], rooms[r].players[2]}
  /\ \E p \in DOMAIN games[rooms[r].game_id].players :
       ~games[rooms[r].game_id].players[p].game_over

\* C11: a Join on a room id outside 1..3 fails with "Room does not exist",
\* a Join by a third user on a room that lists the two players of a match in
\* progress fails with "Room is full", and in both cases the rooms, the games
\* and everything else of the server are as before the call.
C11_RejectedJoinChangesNothing ==
  \A u \in RoomUsers : \A w \in RoomWords :
    /\ \A r \in RoomInputs \ RoomIds :
         LET out == JoinRoomHandler(St, r, u, w)
         IN  /\ ~out.resp.success
             /\ out.resp.error = "Room does not exist"
             /\ out.st = St
    /\ \A r \in RoomIds :
         (MatchInProgressIn(r) /\ ~InList(rooms[r].players, u)) =>
           LET out == JoinRoomHandler(St, r, u, w)
           IN  /\ ~out.resp.success
               /\ out.resp.error = "Room is full"
               /\ out.st = St

\* A room with a match in progress, and a third user who is listed in another
\* room and whose Join on the first room is refused.
C11_Witness ==
  \E r, r2 \in RoomIds : \E u \in RoomUsers :
    /\ r # r2
    /\ MatchInProgressIn(r)
    /\ rooms[r2].players = <<u>>
    /\ ~JoinRoomHandler(St, r, u, FirstModelWord).resp.success
    /\ DOMAIN games # {rooms[r].game_id}

\* The sessions of the table that were started for room r.
SessionsOf(r) == {g \in DOMAIN games : games[g].room_id = r}

\* C12: while two Join calls of two users run with their steps interleaved,
\* and after them, no room lists more than 2 players, no room lists a
\* username twice, and no room has had more than one session started.
C12_ConcurrentJoinsKeepRoom ==
  \A r \in RoomIds :
    /\ Len(rooms[r].players) <= RoomCapacity
    /\ \A i, j \in DOMAIN rooms[r].players :
         i # j => rooms[r].players[i] # rooms[r].players[j]
    /\ Cardinality(SessionsOf(r)) <= 1

\* No request is in the middle of its handler.
Quiescent == \A t \in Threads : threads[t].pc \in {"idle", "done"}

\* The update_user_stats calls made for user u on behalf of game g.
CallsFor(g, u) == {i \in DOMAIN CallsOf(dbCalls, g) : CallsOf(dbCalls, g)[i].username = u}

\* C13: once the concurrent SubmitGuess calls of the two players have
\* returned, at most one player has won, the winner is that player (DRAW
\* with nobody won), and update_user_stats was called exactly once for each
\* player of a complete match and not at all before.
C13_ConcurrentGuessesOneOutcome ==
  Quiescent =>
    \A g \in DOMAIN games :
      LET winners == {u \in PlayersOf(g) : games[g].players[u].won}
      IN  /\ Cardinality(winners) <= 1
          /\ \A u \in winners : games[g].winner = u
          /\ games[g].winner \in PlayersOf(g) => games[g].winner \in winners
          /\ \A u \in PlayersOf(g) :
               Cardinality(CallsFor(g, u)) = IF MatchComplete(games[g]) THEN 1 ELSE 0

\* What a rooms-status poll made in this state reports for room r.
Polled(r) == GetRoomsStatus(St).result[r]

C15_EndSeenBeforeCleanup ==
  [][\A g \in DOMAIN games :
       g \notin DOMAIN games' =>
         /\ MatchComplete(games[g])
         /\ \A u \in PlayersOf(g) : <<g, u>> \in seen]_vars

\* The session ids a cleanup may be called with: those ever given out, and
\* one that was never given out.
SessionIds == 1..(MaxRoomGames + 1)

\* C16: cleanup_completed_game of a session of the table removes that
\* session and no other, resets the session's room to no players and no
\* session reference, and changes no other room; with an id that is not in
\* the table it changes nothing.
C16_CleanupFrame ==
  \A g \in SessionIds :
    LET out == CleanupCompletedGame(St, g)
    IN  IF g \in DOMAIN games
        THEN /\ DOMAIN out.games = DOMAIN games \ {g}
             /\ \A h \in DOMAIN out.games : out.games[h] = games[h]
             /\ out.rooms[games[g].room_id] = EmptyRoom
             /\ \A r \in RoomIds \ {games[g].room_id} : out.rooms[r] = rooms[r]
             /\ DOMAIN out.rooms = RoomIds
             /\ out.nextId = nextId /\ out.dbCalls = dbCalls
        ELSE out = St

\* Two sessions in the table, started on two rooms that both list players:
\* cleaning one up must leave the other session and the other room alone.
C16_Witness ==
  \E g, h \in DOMAIN games :
    /\ games[g].room_id # games[h].room_id
    /\ rooms[games[g].room_id].players # <<>>
    /\ rooms[games[g].room_id].game_id = g
    /\ rooms[games[h].room_id].players # <<>>
    /\ rooms[games[h].room_id].game_id = h
    /\ \E k \in SessionIds : k \notin DOMAIN games

\* The server after the players of game, in order, have each called Leave on
\* the room the game was started on.
AfterBothLeave(game) ==
  LET st1 == LeaveRoomHandler(St, game.room_id, game.order[1]).st
  IN  LeaveRoomHandler(st1, game.room_id, game.order[2]).st

\* C17: whenever a session of the table is complete, the Leave of both its
\* players on its room leaves the session out of the table and the room
\* with no players and no session reference.
C17_LeftSessionIsRemoved ==
  \A g \in DOMAIN games :
    MatchComplete(games[g]) =>
      /\ g \notin DOMAIN AfterBothLeave(games[g]).games
      /\ AfterBothLeave(games[g]).rooms[games[g].room_id] = EmptyRoom

(***************************************************************************)
(* The progress of a player: the record of a single-player game, or the    *)
(* entry of the player in the players of a match.                          *)
(***************************************************************************)
IsSolo(g) == games[g].game_type = None

SoloGames == {g \in DOMAIN games : IsSolo(g)}

Matches == DOMAIN games \ SoloGames

\* Some other player of match g has guessed the target.
OpponentWon(g, u) == \E v \in PlayersOf(g) \ {u} : games[g].players[v].won

\* At least one guess is recorded and no round is left.
RoundsUsedUp(p) == p.current_round >= 1 /\ p.current_round >= p.max_rounds

\* C18 as stated: in single-player games and in matches, a player's progress
\* is game over exactly when it is won or its current round equals its maximum
\* of rounds.
C18_GameOverIffWonOrLastRound ==
  /\ \A g \in SoloGames :
       games[g].game_over <=>
         (games[g].won \/ games[g].current_round = games[g].max_rounds)
  /\ \A g \in Matches : \A u \in PlayersOf(g) :
       games[g].players[u].game_over <=>
         ( \/ games[g].players[u].won
           \/ games[g].players[u].current_round = games[g].players[u].max_rounds )

\* C18 amended: a player's progress is game over exactly when it is won, or at
\* least one guess is recorded and the current round has reached the maximum
\* of rounds, or, in a match, another player has guessed the target.
C18_GameOverIffFinished ==
  /\ \A g \in SoloGames :
       games[g].game_over <=> (games[g].won \/ RoundsUsedUp(games[g]))
  /\ \A g \in Matches : \A u \in PlayersOf(g) :
       games[g].players[u].game_over <=>
         ( \/ games[g].players[u].won
           \/ RoundsUsedUp(games[g].players[u])
           \/ OpponentWon(g, u) )

\* A single-player game lost on its last round beside a match in which one
\* player was stopped by the win of the other.
C18_Witness ==
  /\ \E g \in SoloGames :
       /\ games[g].game_over /\ ~games[g].won
       /\ games[g].current_round = games[g].max_rounds
  /\ \E g \in Matches : \E u \in PlayersOf(g) :
       /\ games[g].players[u].game_over /\ ~games[g].players[u].won
       /\ games[g].players[u].current_round < games[g].players[u].max_rounds

\* Every letter of the word is an upper-case letter.
IsUpperWord(word) == \A k \in DOMAIN word : word[k] \in Letters

\* What C19 asks of a progress whose guesses are evaluated against target.
ProgressRecorded(p, target) ==
  /\ p.current_round = Len(p.guesses)
  /\ p.current_round = Len(p.guess_results)
  /\ \A k \in DOMAIN p.guesses :
       /\ Len(p.guesses[k]) = WordLen
       /\ IsUpperWord(p.guesses[k])
       /\ p.guesses[k] \in WordSet
       /\ p.guess_results[k] = EvaluateGuessAgainstTarget(p.guesses[k], target)

\* C19: in every state, for every player's progress, the current round equals
\* the number of guesses and the number of guess results, every recorded guess
\* is an upper-case five-letter word of the word list, and the k-th guess
\* result is the evaluation of the k-th guess against the target of the session.
C19_ProgressRecordsGuesses ==
  /\ \A g \in SoloGames : ProgressRecorded(games[g], games[g].target_word)
  /\ \A g \in Matches : \A u \in PlayersOf(g) :
       ProgressRecorded(games[g].players[u], games[g].target_word)

\* A single-player game and a player of a match with two guesses recorded each,
\* typed in lower case.
C19_Witness ==
  /\ \E g \in SoloGames : Len(games[g].guesses) >= 2
  /\ \E g \in Matches : \E u \in PlayersOf(g) :
       /\ Len(games[g].players[u].guesses) >= 2
       /\ games[g].players[u].guesses[1] # games[g].players[u].guesses[2]

\* The messages of a guess rejected for what it is: malformed, of the wrong
\* length, not alphabetic, or not in the word list.
GuessErrors ==
  {"Guess must be a valid string", "Guess must be exactly 5 letters",
   "Guess must contain only letters", "Word not in word list"}

\* The guess has the wrong length, a character that is no letter, or is not a
\* word of the word list.
Malformed(guess) ==
  \/ Len(Normalize(guess)) # WordLen
  \/ ~IsAlpha(Normalize(guess))
  \/ Normalize(guess) \notin WordSet

\* u may still guess in session g.
CanGuess(g, u) ==
  IF IsSolo(g) THEN ~games[g].game_over
  ELSE /\ u \in PlayersOf(g)
       /\ ~games[g].players[u].game_over
       /\ games[g].players[u].current_round < games[g].players[u].max_rounds

\* C20: a guess rejected for its length, for a character that is no letter or
\* for not being in the word list leaves rooms, sessions and every player's
\* progress as they were; and a player who may still guess has every such
\* guess rejected in this way.
C20_RejectedGuessChangesNothing ==
  \A g \in DOMAIN games : \A u \in Users : \A guess \in PlayGuesses :
    LET out == MakeGuessEndpoint(St, g, u, guess)
    IN  /\ (~out.resp.success /\ out.resp.error \in GuessErrors) => out.st = St
        /\ (CanGuess(g, u) /\ Malformed(guess)) =>
             /\ ~out.resp.success
             /\ out.resp.error \in GuessErrors
             /\ out.st = St

\* A single-player game and a player of a match, each with a guess recorded and
\* still playing, whose next guess is rejected as not in the word list.
C20_Witness ==
  /\ \E g \in SoloGames :
       /\ games[g].current_round >= 1 /\ ~games[g].game_over
       /\ \E guess \in BadGuesses :
            MakeGuessEndpoint(St, g, None, guess).resp.error = "Word not in word list"
  /\ \E g \in Matches : \E u \in PlayersOf(g) :
       /\ games[g].players[u].current_round >= 1 /\ CanGuess(g, u)
       /\ \E guess \in BadGuesses :
            MakeGuessEndpoint(St, g, u, guess).resp.error = "Word not in word list"

\* The progress of user u in session g: the game itself for a single-player
\* game, the entry of u for a match.
HasProgress(g, u) == IsSolo(g) \/ u \in PlayersOf(g)

ProgressOf(g, u) == IF IsSolo(g) THEN games[g] ELSE games[g].players[u]

\* C21: a guess submitted for a player whose progress is game over, or whose
\* current round has reached the maximum of rounds, is rejected and changes
\* nothing: no round, no letter status, no winner, no further result call.
C21_StaleGuessRejected ==
  \A g \in DOMAIN games : \A u \in Users : \A guess \in PlayGuesses :
    ( /\ HasProgress(g, u)
      /\ \/ ProgressOf(g, u).game_over
         \/ ProgressOf(g, u).current_round >= ProgressOf(g, u).max_rounds )
    => LET out == MakeGuessEndpoint(St, g, u, guess)
       IN  ~out.resp.success /\ out.st = St

\* What C25 asks of a progress.
RoundsInRange(p) ==
  p.max_rounds > 0 /\ 0 <= p.current_round /\ p.current_round <= p.max_rounds

\* C25: every session, created by new_game with any integer or no max_rounds
\* or started by a room, has a positive maximum of rounds and a current round
\* between 0 and that maximum; a game created without max_rounds gets the
\* default of 3.
C25_RoundsWithinPositiveMaximum ==
  /\ \A g \in SoloGames : RoundsInRange(games[g])
  /\ \A g \in Matches : \A u \in PlayersOf(g) : RoundsInRange(games[g].players[u])
  /\ \A w \in PlayWords :
       LET out == CreateNewGame(St, <<>>, w)
       IN  out.st.games[out.game_id].max_rounds = 3

\* C22: the opponent summary given to a player of a match holds the target
\* word and the winner only once the match is complete; while the match is in
\* progress it holds neither.
C22_OpponentSummaryAfterCompletion ==
  \A g \in DOMAIN games : \A u \in PlayersOf(g) :
    ~MatchComplete(games[g]) =>
      /\ GetOpponentInfo(St, g, u).target_word = NoWord
      /\ GetOpponentInfo(St, g, u).winner = None

C24_ApplyIdempotent ==
  ev.phase = "applied" => ev.twice = ev.once

\* An evaluation that changes the map, holding one letter first as PRESENT and
\* later as MISS, has been applied twice.
C24_Witness ==
  /\ ev.phase = "applied"
  /\ ev.once # ev.m
  /\ \E i, j \in 1..WordLen :
       /\ i < j
       /\ ev.e[i][1] = ev.e[j][1]
       /\ ev.e[i][2] = PRESENT
       /\ ev.e[j][2] = MISS
       /\ ev.m[ev.e[i][1]] = UNUSED

\* The guesses accepted so far in match g, over its two players.
AcceptedGuesses(g) ==
  games[g].players[games[g].order[1]].current_round
    + games[g].players[games[g].order[2]].current_round

\* C26: a single-player game is game over once max_rounds guesses have been
\* accepted, and accepts no more than that; a match is complete, its winner a
\* player or DRAW, once both players have had max_rounds guesses accepted, and
\* accepts no more than twice max_rounds guesses in all.
C26_MatchesTerminate ==
  /\ \A g \in SoloGames :
       /\ games[g].current_round <= games[g].max_rounds
       /\ games[g].current_round >= games[g].max_rounds => games[g].game_over
  /\ \A g \in Matches :
       /\ AcceptedGuesses(g) <= 2 * DEFAULT_MAX_ROUNDS
       /\ (\A u \in PlayersOf(g) :
             games[g].players[u].current_round >= games[g].players[u].max_rounds)
            => /\ MatchComplete(games[g])
               /\ games[g].winner \in PlayersOf(g) \cup {"DRAW"}
       /\ MatchComplete(games[g]) => games[g].winner \in PlayersOf(g) \cup {"DRAW"}

\* Player u of game is ahead of every other player in HIT verdicts after all
\* players have used their rounds without solving.
WinsByHits(game, u) ==
  /\ AllExhaustedUnsolved(game)
  /\ \A v \in DOMAIN game.players \ {u} :
       HitTotal(game.players[u]) > HitTotal(game.players[v])

\* What an accepted guess of u in match g does to the progress of u and of the
\* others, but for the player's won.
OneRoundRecorded(g, u, guess, st1) ==
  LET p == games[g].players[u]
      q == st1.games[g].players[u]
      w == Normalize(guess)
  IN  /\ q.current_round = p.current_round + 1
      /\ q.guesses = Append(p.guesses, w)
      /\ q.guess_results =
           Append(p.guess_results, EvaluateGuessAgainstTarget(w, games[g].target_word))
      /\ \A v \in PlayersOf(g) \ {u} :
           /\ st1.games[g].players[v].guesses = games[g].players[v].guesses
           /\ st1.games[g].players[v].guess_results = games[g].players[v].guess_results
           /\ st1.games[g].players[v].current_round = games[g].players[v].current_round
           /\ st1.games[g].players[v].letter_status = games[g].players[v].letter_status

\* C27 as stated: an accepted guess of a player adds one round, appends the
\* normalized guess and its evaluation, leaves the other player's guesses,
\* results, round and letter status alone, and the player's won is true
\* afterwards exactly when the guess is the target word.
C27_AcceptedGuessWonIffTarget ==
  \A g \in DOMAIN games : \A u \in PlayersOf(g) : \A guess \in ModelGuesses :
    LET out == MakeGuessEndpoint(St, g, u, guess)
    IN  out.resp.success =>
          /\ OneRoundRecorded(g, u, guess, out.st)
          /\ out.st.games[g].players[u].won
               <=> Normalize(guess) = games[g].target_word

\* C27 amended: as stated, but the player's won is true afterwards exactly when
\* the guess is the target word, or the guess ends the match with all players
\* out of rounds and unsolved and this player strictly ahead in HIT verdicts.
C27_AcceptedGuessOneRound ==
  \A g \in DOMAIN games : \A u \in PlayersOf(g) : \A guess \in ModelGuesses :
    LET out == MakeGuessEndpoint(St, g, u, guess)
    IN  out.resp.success =>
          /\ OneRoundRecorded(g, u, guess, out.st)
          /\ out.st.games[g].players[u].won
               <=> ( \/ Normalize(guess) = games[g].target_word
                     \/ WinsByHits(out.st.games[g], u) )

\* A player with two rounds played whose third guess is accepted, is not the
\* target word, and wins the match on HIT verdicts.
C27_Witness ==
  \E g \in DOMAIN games : \E u \in PlayersOf(g) : \E guess \in ModelGuesses :
    LET out == MakeGuessEndpoint(St, g, u, guess)
    IN  /\ out.resp.success
        /\ games[g].players[u].current_round = 2
        /\ Normalize(guess) # games[g].target_word
        /\ out.st.games[g].players[u].won

\* C28: a Join on a room that references a session of the table whose players
\* are all game over reclaims it before the capacity check: the Join
\* succeeds, the old session is out of the table, and afterwards the room
\* lists the joining user alone, references no session, and no match starts.
C28_JoinReclaimsEndedSession ==
  \A r \in RoomIds : \A u \in RoomUsers : \A w \in RoomWords :
    ( /\ rooms[r].game_id \in DOMAIN games
      /\ \A p \in PlayersOf(rooms[r].game_id) :
           games[rooms[r].game_id].players[p].game_over )
    => LET out == JoinRoomHandler(St, r, u, w)
       IN  /\ out.resp.success
           /\ ~out.resp.game_starting
           /\ rooms[r].game_id \notin DOMAIN out.st.games
           /\ out.st.rooms[r].players = <<u>>
           /\ out.st.rooms[r].game_id = NoGame

\* A room that lists two players and references their ended session, while a
\* third user is not listed in it.
C28_Witness ==
  \E r \in RoomIds : \E u \in RoomUsers :
    /\ Len(rooms[r].players) = RoomCapacity
    /\ ~InList(rooms[r].players, u)
    /\ rooms[r].game_id \in DOMAIN games
    /\ \A p \in PlayersOf(rooms[r].game_id) :
         games[rooms[r].game_id].players[p].game_over

\* The sessions of the table that are not in the table of st1.
RemovedBy(st1) == DOMAIN games \ DOMAIN st1.games

\* Session g is a match whose players are all game over.
EndedMatch(g) ==
  /\ ~IsSolo(g)
  /\ \A p \in PlayersOf(g) : games[g].players[p].game_over

\* C29: Join, Leave and the rooms status remove a session from the table only
\* if it is a match whose players are all game over; a guess removes none; so
\* a session in progress, and any single-player game, leaves the table only
\* by DeleteSession, which removes the session it names and no other.
C29_RoomOpsRemoveOnlyEnded ==
  /\ \A r \in RoomInputs : \A u \in Users : \A w \in PlayWords :
       /\ \A g \in RemovedBy(JoinRoomHandler(St, r, u, w).st) : EndedMatch(g)
       /\ \A g \in RemovedBy(LeaveRoomHandler(St, r, u).st) : EndedMatch(g)
  /\ \A g \in RemovedBy(GetRoomsStatus(St).st) : EndedMatch(g)
  /\ \A g \in 1..MaxPlayGames :
       /\ \A u \in Users : \A guess \in PlayGuesses :
            RemovedBy(MakeGuessEndpoint(St, g, u, guess).st) = {}
       /\ RemovedBy(DeleteGame(St, g).st) = {g} \cap DOMAIN games

\* A single-player game in the table beside the ended match of a room, which
\* the next Join, or the next look at the rooms, removes.
C29_Witness ==
  /\ SoloGames # {}
  /\ \E g \in Matches :
       /\ EndedMatch(g)
       /\ rooms[games[g].room_id].game_id = g
       /\ RemovedBy(GetRoomsStatus(St).st) = {g}
       /\ \E u \in Users : RemovedBy(JoinRoomHandler(St, games[g].room_id, u,
                                                      games[g].target_word).st) = {g}

\* The sessions of the table started on room r that are not complete.
LiveSessionsOf(r) ==
  {g \in DOMAIN games : games[g].room_id = r /\ ~MatchComplete(games[g])}

\* C30: with requests handled one at a time, no match is started on a room
\* whose previous match is still in progress: every room has at most one
\* session of the table that is not complete.
C30_OneLiveSessionPerRoom ==
  \A r \in RoomIds : Cardinality(LiveSessionsOf(r)) <= 1

\* C31: whenever a room references a session of the table, every user the
\* room lists is a player of that session; and a user whose Join leaves them
\* alone in the room, with no match started, finds no session reference on it.
C31_RoomListsSessionPlayers ==
  /\ \A r \in RoomIds :
       rooms[r].game_id \in DOMAIN games =>
         \A k \in DOMAIN rooms[r].players :
           rooms[r].players[k] \in PlayersOf(rooms[r].game_id)
  /\ \A r \in RoomIds : \A u \in RoomUsers : \A w \in RoomWords :
       LET out == JoinRoomHandler(St, r, u, w)
       IN  (out.resp.success /\ ~out.resp.game_starting)
             => out.st.rooms[r].game_id = NoGame

\* C32: the session reference of every room is empty or names a session of
\* the table: no cleanup and no DeleteSession leaves a room pointing at a
\* session that has been removed.
C32_RoomReferencesLiveSession ==
  \A r \in RoomIds : rooms[r].game_id = NoGame \/ rooms[r].game_id \in DOMAIN games

\* C33: in every match the winner and the won flags agree.  With no winner no
\* player has won; with a player as winner that player has won and is game
\* over and every other player has not won and is game over; with DRAW no
\* player has won and all are game over.  At most one player has won.
C33_WinnerAgreesWithWon ==
  \A g \in DOMAIN games :
    LET game == games[g]
    IN  /\ game.winner = None => \A u \in PlayersOf(g) : ~game.players[u].won
        /\ game.winner \in PlayersOf(g) =>
             /\ game.players[game.winner].won
             /\ game.players[game.winner].game_over
             /\ \A v \in PlayersOf(g) \ {game.winner} :
                  ~game.players[v].won /\ game.players[v].game_over
        /\ game.winner = "DRAW" =>
             \A u \in PlayersOf(g) : ~game.players[u].won /\ game.players[u].game_over
        /\ game.winner \in PlayersOf(g) \cup {None, "DRAW"}
        /\ Cardinality({u \in PlayersOf(g) : game.players[u].won}) <= 1

\* A match decided by hits: its winner is a player who never guessed the target.
C33_Witness ==
  \E g \in DOMAIN games :
    /\ games[g].winner \in PlayersOf(g)
    /\ ~Solved(games[g].players[games[g].winner])

\* The update_user_stats calls made for match g are one per player, at most
\* one of them with won = TRUE.
OneResultPerPlayer(calls, players) ==
  /\ Len(calls) = Cardinality(players)
  /\ \A u \in players :
       Cardinality({i \in DOMAIN calls : calls[i].username = u}) = 1
  /\ Cardinality({i \in DOMAIN calls : calls[i].won}) <= 1

\* C34: with every operation atomic, update_user_stats is never called for a
\* match in progress, is called exactly once per player by the operation that
\* completes the match (a win or the decision by hits), never again for that
\* match afterwards, and at most one of the calls has won = TRUE.
C34_ResultsRecordedOnceAtCompletion ==
  [][ \A g \in 1..MaxGames :
        LET before == CallsOf(dbCalls, g)
            after == CallsOf(dbCalls', g)
            inProgress == g \in DOMAIN games /\ ~MatchComplete(games[g])
            completes == /\ inProgress
                         /\ g \in DOMAIN games'
                         /\ MatchComplete(games'[g])
        IN  /\ inProgress => before = <<>>
            /\ (g \in DOMAIN games' /\ ~MatchComplete(games'[g])) => after = <<>>
            /\ after # before => completes
            /\ completes => OneResultPerPlayer(after, PlayersOf(g))
            /\ before # <<>> => after = before ]_vars

\* A completed match whose results are recorded, one of them a win.
C34_Witness ==
  \E g \in DOMAIN games :
    /\ MatchComplete(games[g])
    /\ OneResultPerPlayer(CallsOf(dbCalls, g), PlayersOf(g))
    /\ \E i \in DOMAIN CallsOf(dbCalls, g) : CallsOf(dbCalls, g)[i].won

\* The progress of a finished player (or of a finished single-player game) is
\* the same in the next state.
ProgressFrozen(p, q) ==
  p.game_over =>
    /\ q.game_over
    /\ q.current_round = p.current_round
    /\ q.guesses = p.guesses
    /\ q.guess_results = p.guess_results

\* C35: terminal states are stable.  Across every step, for every session that
\* exists before and after it: a player (or single-player game) that is game
\* over stays game over with the same round, guesses and results; a winner
\* once set never changes; a completed match never becomes incomplete.
C35_TerminalStatesStable ==
  [][ \A g \in DOMAIN games \cap DOMAIN games' :
        IF games[g].game_type = None
        THEN /\ games'[g].game_type = None
             /\ ProgressFrozen(games[g], games'[g])
        ELSE /\ games'[g].game_type # None
             /\ DOMAIN games'[g].players = DOMAIN games[g].players
             /\ \A u \in DOMAIN games[g].players :
                  ProgressFrozen(games[g].players[u], games'[g].players[u])
             /\ games[g].winner # None => games'[g].winner = games[g].winner
             /\ MatchComplete(games[g]) => MatchComplete(games'[g]) ]_vars

\* A match with a winner whose other player has rounds left, and a finished
\* single-player game; a further guess in either changes nothing.
C35_Witness ==
  /\ \E g \in Matches : \E u \in PlayersOf(g) : \E w \in PlayWords :
       /\ games[g].winner \in PlayersOf(g) \ {u}
       /\ games[g].players[u].current_round < games[g].players[u].max_rounds
       /\ MakeGuessEndpoint(St, g, u, w).st = St
  /\ \E g \in SoloGames : \E u \in Users : \E w \in PlayWords :
       /\ games[g].game_over
       /\ MakeGuessEndpoint(St, g, u, w).st = St

\* The returned state of single-player game g in st carries the answer exactly
\* when the game is over, and then it is the game's target word.
AnswerIffGameOver(st, g, state) ==
  /\ state.game_over = st.games[g].game_over
  /\ (state.answer # NoWord) <=> st.games[g].game_over
  /\ st.games[g].game_over => state.answer = st.games[g].target_word

\* C36: the state of a single-player game returned by new_game, by the state
\* endpoint and by an accepted guess carries the answer if and only if the game
\* is over; the answer is the target word chosen at creation, and no step
\* changes the target word of a game.
C36_SoloAnswerIffGameOver ==
  /\ [] /\ \A max_rounds \in PlayRounds : \A target_word \in PlayWords :
             LET out == CreateNewGame(St, max_rounds, target_word)
             IN  /\ out.st.games[out.game_id].target_word = target_word
                 /\ AnswerIffGameOver(out.st, out.game_id,
                                      GetGameState(out.st, out.game_id))
        /\ \A g \in SoloGames : \A u \in Users \cup {None} :
             /\ GetStateEndpoint(St, g, u).success
             /\ AnswerIffGameOver(St, g, GetStateEndpoint(St, g, u).state)
             /\ \A guess \in PlayGuesses :
                  LET out == MakeGuessEndpoint(St, g, u, guess)
                  IN  /\ out.st.games[g].target_word = games[g].target_word
                      /\ out.resp.success =>
                           AnswerIffGameOver(out.st, g, out.resp.state)
  /\ [][ \A g \in DOMAIN games \cap DOMAIN games' :
           games[g].game_type = None =>
             /\ games'[g].game_type = None
             /\ games'[g].target_word = games[g].target_word ]_vars

\* A single-player game lost after its last round, whose state shows the target
\* word, and one still in play with a guess recorded, whose state hides it.
C36_Witness ==
  /\ \E g \in SoloGames :
       /\ games[g].game_over /\ ~games[g].won
       /\ GetStateEndpoint(St, g, None).state.answer = games[g].target_word
  /\ \E g \in SoloGames :
       /\ ~games[g].game_over /\ Len(games[g].guesses) >= 1
       /\ GetStateEndpoint(St, g, None).state.answer = NoWord

\* The state request names a session that does not exist, or a user who is not
\* a player of the match it names.
UnknownOrNotPlayer(g, u) ==
  \/ g \notin DOMAIN games
  \/ /\ g \in Matches
     /\ u # None
     /\ u \notin PlayersOf(g)

C38_EnginesAgree ==
  /\ ev.phase = "evaluated" =>
       /\ ev.engine = ev.server
       /\ Len(ev.server) = WordLen
  /\ ev.phase = "updated" => ev.engine = ev.server

\* A guess with a repeated letter that the target holds once, elsewhere: the
\* first copy is PRESENT and the second a MISS in both lists.
C38_Witness ==
  /\ ev.phase = "evaluated"
  /\ \E i, j \in 1..WordLen :
       /\ i < j
       /\ ev.guess[i] = ev.guess[j]
       /\ ev.engine[i][2] = PRESENT
       /\ ev.engine[j][2] = MISS
       /\ ev.server[i][2] = PRESENT
       /\ ev.server[j][2] = MISS

\* C39: the client schedules handle_game_end at most once per match, whatever
\* the interleaving of the polling thread and a guess on the Tk thread.
C39_GameEndScheduledOnce ==
  threads.client.end_scheduled <= 1

====
